---- MODULE Spec2Model ----
(***************************************************************************)
(* Linux_Process_Manager: the process registry (process.rs), the bounded   *)
(* time-series store (graph.rs), the exit log and the refresh loop (ui.rs) *)
(* and the rule evaluator (scripting_rules.rs).                            *)
(*                                                                         *)
(* Conventions.  A String is a sequence of character codes (ASCII), so     *)
(* that to_lowercase, contains and the lexicographic order of Rust's       *)
(* String are computed and not assumed.  Option<T> is a sequence of        *)
(* length 0 (None) or 1 (Some(x)).  f32/u64 metrics are small naturals.    *)
(***************************************************************************)
EXTENDS Integers, Sequences, FiniteSets, TLC

VARIABLES
    os,                  \* the operating system's process table: set of indices into RawProcs
    proc_stat,           \* /proc/stat per-core counters: sequence of [idle, total]
    since_update,        \* now.duration_since(graph_data.last_update), saturated at update_interval
    wall,                \* wall clock (Local::now()), in seconds
    system,              \* ProcessManager.system: sysinfo's snapshot, in enumeration order
    processes,           \* ProcessManager.processes
    filtered_processes,  \* ProcessManager's rule-filtered list (get_filtered_processes)
    sort_mode,           \* ProcessManager.sort_mode
    sort_ascending,      \* ProcessManager.sort_ascending
    filter_mode,         \* ProcessManager.filter_mode
    filter_value,        \* ProcessManager.filter_value
    cpu_history,         \* GraphData.cpu_history
    memory_history,      \* GraphData.memory_history
    per_process_history, \* GraphData.per_process_history: pid -> <<cpu series, memory series>>
    cpu_infos,           \* GraphData.cpu_infos: sequence of [usage, last_idle, last_total]
    active_rule,         \* RuleEngine.active_rule
    view_mode,           \* App.view_mode
    filter_input,        \* App.input_state.filter_input
    rule_input,          \* App.input_state.rule_input
    app_filter_mode,     \* App.filter_mode
    app_sort_mode,       \* App.sort_mode
    app_sort_ascending,  \* App.sort_ascending
    process_exit_log,    \* App.process_exit_log
    prev_pids,           \* App.prev_pids
    pc,                  \* position in the loop of ui_renderer: "refresh" or "events"
    renice,              \* the operating system: pid -> niceness set by setpriority
    stopped,             \* the operating system: pids stopped by SIGSTOP
    ret,                 \* the last call of a method from outside the loop and what it returned
    prev_map,            \* App::refresh's local prev_map while refresh runs step by step
    kill_stop_input_state,      \* App.kill_stop_input_state
    nice_input_state,           \* App.nice_input_state
    nice_input,                 \* App.input_state.nice_input
    selected_process_index,     \* App.selected_process_index
    selected_process_for_graph, \* App.selected_process_for_graph
    current_stats_tab,          \* App.current_stats_tab
    log_filter_input,           \* App.log_filter_input
    log_filter_active,          \* App.log_filter_active
    log_group_mode,             \* App.log_group_mode
    log_scroll_offset,          \* App.log_scroll_offset
    highlighted                 \* the pid of the row the menu showed highlighted when
                                \* Enter selected it (what the user saw; no field of App)

envVars   == <<os, proc_stat, since_update, wall>>
pmVars    == <<system, processes, filtered_processes, sort_mode, sort_ascending,
               filter_mode, filter_value>>
graphVars == <<cpu_history, memory_history, per_process_history, cpu_infos>>
appVars   == <<active_rule, view_mode, filter_input, rule_input, app_filter_mode,
               app_sort_mode, app_sort_ascending, process_exit_log, prev_pids>>
ctlVars   == <<renice, stopped, ret>>
menuVars  == <<kill_stop_input_state, nice_input_state, nice_input, selected_process_index,
               selected_process_for_graph, current_stats_tab, log_filter_input,
               log_filter_active, log_group_mode, log_scroll_offset, highlighted>>
vars      == <<envVars, ctlVars, pmVars, graphVars, appVars, pc, prev_map, menuVars>>

----------------------------------------------------------------------------
(* Bounds of the model                                                     *)

MaxPoints   == 2   \* max_points handed to GraphData::new
MaxExits    == 1   \* process exits the operating system performs while the log is shorter
MaxWall     == 1   \* seconds the wall clock advances
MaxStat     == 2   \* upper end of the total counter of a core in /proc/stat
MaxCounter  == 300   \* largest total of the kernel counters of a core, in hundreds of ticks
MaxLogExits == 102 \* exits the operating system performs in the runs that fill the exit log
NumCores    == 1   \* get_cpu_count()

----------------------------------------------------------------------------
(* Option and String                                                       *)

None == <<>>

Some(x) == <<x>>

IsSome(o) == Len(o) = 1

Unwrap(o) == o[1]

\* char::to_ascii_lowercase on the codes of 'A'..'Z'
LowerChar(c) == IF c >= 65 /\ c <= 90 THEN c + 32 ELSE c

\* str::to_lowercase
to_lowercase(s) == [i \in 1..Len(s) |-> LowerChar(s[i])]

\* str::contains(&str): needle occurs as a contiguous substring
contains(hay, needle) ==
    \E i \in 1..(Len(hay) + 1) :
        /\ i + Len(needle) - 1 <= Len(hay)
        /\ SubSeq(hay, i, i + Len(needle) - 1) = needle

\* char::is_whitespace on the codes used here
IsWhitespace(c) == c = 32

RECURSIVE trim_start(_)
trim_start(s) ==
    IF s # <<>> /\ IsWhitespace(Head(s)) THEN trim_start(Tail(s)) ELSE s

RECURSIVE trim_end(_)
trim_end(s) ==
    IF s # <<>> /\ IsWhitespace(s[Len(s)]) THEN trim_end(SubSeq(s, 1, Len(s) - 1)) ELSE s

\* str::trim
trim(s) == trim_end(trim_start(s))

\* u32::to_string: decimal digits, most significant first
RECURSIVE to_string(_)
to_string(n) ==
    IF n < 10 THEN <<48 + n>> ELSE to_string(n \div 10) \o <<48 + (n % 10)>>

\* Ord for String: lexicographic on the codes, a proper prefix is smaller
RECURSIVE StrLess(_, _)
StrLess(a, b) ==
    IF b = <<>> THEN FALSE
    ELSE IF a = <<>> THEN TRUE
    ELSE IF Head(a) # Head(b) THEN Head(a) < Head(b)
    ELSE StrLess(Tail(a), Tail(b))

Pad2(n) == <<48 + (n \div 10), 48 + (n % 10)>>

SecondsPerDay == 86400

\* format_timestamp: "%H:%M:%S" of the time of day (local offset 0)
format_timestamp(timestamp) ==
    LET tod == timestamp % SecondsPerDay
    IN  Pad2(tod \div 3600) \o <<58>> \o Pad2((tod % 3600) \div 60) \o <<58>> \o Pad2(tod % 60)

----------------------------------------------------------------------------
(* The snapshot source: what sysinfo/procfs report for a process           *)

MB == 1024 * 1024

\* The processes the operating system can run.  Entries 2 and 4 are the same
\* pid with other attributes (the process changed its name and parent, or the
\* pid was reused).  Names: "Ab", "ab", "b"; users: "Ro", "ro", none.
RawProcs == <<
    [pid |-> 1,  name |-> <<65, 98>>, cpu_usage |-> 1, memory |-> MB + (MB \div 2),
     parent |-> None,     start_time |-> 5,     status |-> "Sleeping",
     user |-> Some(<<82, 111>>),  nice |-> 0],
    [pid |-> 10, name |-> <<97, 98>>, cpu_usage |-> 2, memory |-> MB + (MB \div 2),
     parent |-> Some(1),  start_time |-> 86401, status |-> "Running",
     user |-> Some(<<114, 111>>), nice |-> 0],
    [pid |-> 21, name |-> <<98>>,     cpu_usage |-> 1, memory |-> 3 * MB,
     parent |-> Some(1),  start_time |-> 7,     status |-> "Running",
     user |-> None,               nice |-> -5],
    [pid |-> 10, name |-> <<98>>,     cpu_usage |-> 3, memory |-> MB,
     parent |-> Some(21), start_time |-> 86401, status |-> "Running",
     user |-> Some(<<114, 111>>), nice |-> 0] >>

ProcIds == 1..Len(RawProcs)

\* A process table holds each pid at most once
UniquePids(S) == \A i, j \in S : RawProcs[i].pid = RawProcs[j].pid => i = j

\* All enumeration orders of a set (the iteration order of a HashMap/HashSet)
Orders(S) ==
    {q \in [1..Cardinality(S) -> S] : \A i, j \in 1..Cardinality(S) : q[i] = q[j] => i = j}

\* The pids of the processes of S
PidsIn(S) == {RawProcs[i].pid : i \in S}

\* The niceness of process i: the one setpriority gave it, else the one it
\* started with
NiceOf(i) ==
    IF RawProcs[i].pid \in DOMAIN renice THEN renice[RawProcs[i].pid] ELSE RawProcs[i].nice

\* The state of process i: stopped after SIGSTOP
StatusOf(i) == IF RawProcs[i].pid \in stopped THEN "Stopped" ELSE RawProcs[i].status

\* What the operating system keeps of renice for the processes of S
ReniceOf(S) == [pid \in DOMAIN renice \cap PidsIn(S) |-> renice[pid]]

----------------------------------------------------------------------------
(* ProcessManager (process.rs)                                             *)

\* The ProcessInfo that update_processes builds for one enumerated process
ProcessInfoOf(i) ==
    LET r == RawProcs[i]
    IN  [pid |-> r.pid, name |-> r.name, cpu_usage |-> r.cpu_usage,
         memory_usage |-> r.memory, parent_pid |-> r.parent,
         start_time |-> r.start_time, status |-> StatusOf(i), user |-> r.user,
         nice |-> NiceOf(i), startTime |-> format_timestamp(r.start_time)]

\* Fault: the pid and ppid filters compare for equality of the numbers
should_include_numeric(mode, value, p) ==
    CASE mode = "user" -> IsSome(p.user) /\ contains(Unwrap(p.user), value)
      [] mode = "name" -> contains(to_lowercase(p.name), to_lowercase(value))
      [] mode = "pid"  -> to_string(p.pid) = value
      [] mode = "ppid" -> IsSome(p.parent_pid) /\ to_string(Unwrap(p.parent_pid)) = value
      [] OTHER -> TRUE

\* The match on the filter mode in update_processes
should_include(mode, value, p) ==
    CASE mode = "user" -> IsSome(p.user) /\ contains(Unwrap(p.user), value)
      [] mode = "name" -> contains(to_lowercase(p.name), to_lowercase(value))
      [] mode = "pid"  -> contains(to_string(p.pid), value)
      [] mode = "ppid" -> IsSome(p.parent_pid) /\ contains(to_string(Unwrap(p.parent_pid)), value)
      [] OTHER -> TRUE

\* Fault: a filter mode without a value hides every record
passes_filter_needs_value(fmode, fvalue, p) ==
    IF IsSome(fmode)
    THEN IsSome(fvalue) /\ should_include(Unwrap(fmode), Unwrap(fvalue), p)
    ELSE TRUE

\* "if let (Some(mode), Some(value)) = (&self.filter_mode, &self.filter_value)"
passes_filter(fmode, fvalue, p) ==
    IF IsSome(fmode) /\ IsSome(fvalue)
    THEN should_include(Unwrap(fmode), Unwrap(fvalue), p)
    ELSE TRUE

\* The comparison "a sorts strictly before b" that sort_processes hands to
\* sort_by_key / sort_by for each mode and direction
sort_less(mode, ascending, a, b) ==
    LET ppid(p) == IF IsSome(p.parent_pid) THEN Unwrap(p.parent_pid) ELSE 0
    IN  CASE mode = "pid"   -> IF ascending THEN a.pid < b.pid ELSE b.pid < a.pid
          [] mode = "mem"   -> IF ascending THEN a.memory_usage < b.memory_usage
                                            ELSE b.memory_usage < a.memory_usage
          [] mode = "ppid"  -> IF ascending THEN ppid(a) < ppid(b) ELSE ppid(b) < ppid(a)
          [] mode = "start" -> IF ascending THEN StrLess(a.startTime, b.startTime)
                                            ELSE StrLess(b.startTime, a.startTime)
          [] mode = "nice"  -> IF ascending THEN a.nice < b.nice ELSE b.nice < a.nice
          [] mode = "cpu"   -> IF ascending THEN a.cpu_usage < b.cpu_usage
                                            ELSE b.cpu_usage < a.cpu_usage
          [] OTHER -> FALSE

\* Fault: x is put in front of the elements with an equal key
RECURSIVE InsertInFront(_, _, _, _)
InsertInFront(s, x, mode, ascending) ==
    IF s = <<>> THEN <<x>>
    ELSE IF ~sort_less(mode, ascending, Head(s), x) THEN <<x>> \o s
    ELSE <<Head(s)>> \o InsertInFront(Tail(s), x, mode, ascending)

\* Insert x into the sorted sequence s behind every element that does not
\* sort strictly after it (what a stable sort does with equal elements)
RECURSIVE InsertStable(_, _, _, _)
InsertStable(s, x, mode, ascending) ==
    IF s = <<>> THEN <<x>>
    ELSE IF sort_less(mode, ascending, x, Head(s)) THEN <<x>> \o s
    ELSE <<Head(s)>> \o InsertStable(Tail(s), x, mode, ascending)

RECURSIVE StableSort(_, _, _)
StableSort(s, mode, ascending) ==
    IF s = <<>> THEN <<>>
    ELSE InsertStable(StableSort(SubSeq(s, 1, Len(s) - 1), mode, ascending),
                      s[Len(s)], mode, ascending)

SortModes == {"pid", "mem", "ppid", "start", "nice", "cpu"}

\* Fault: descending order obtained by reversing the ascending order
sort_processes_reversing(procs, mode, ascending) ==
    LET up == StableSort(procs, mode, TRUE)
    IN  IF mode \in SortModes
        THEN (IF ascending THEN up ELSE [k \in 1..Len(up) |-> up[Len(up) - k + 1]])
        ELSE procs

\* ProcessManager::sort_processes: slice::sort_by_key / sort_by are stable;
\* an unknown mode leaves the list as it is
sort_processes(procs, mode, ascending) ==
    IF mode \in SortModes THEN StableSort(procs, mode, ascending) ELSE procs

\* Fault: the list is rebuilt and filtered but the sort is not re-applied
update_processes_unsorted(sys, fmode, fvalue, smode, ascending) ==
    SelectSeq([k \in 1..Len(sys) |-> ProcessInfoOf(sys[k])],
              LAMBDA p : passes_filter(fmode, fvalue, p))

\* ProcessManager::update_processes: rebuild the list from the snapshot in
\* enumeration order, skip what the filter excludes, re-apply the sort
update_processes(sys, fmode, fvalue, smode, ascending) ==
    LET all == [k \in 1..Len(sys) |-> ProcessInfoOf(sys[k])]
        kept == SelectSeq(all, LAMBDA p : passes_filter(fmode, fvalue, p))
    IN  IF IsSome(smode) THEN sort_processes(kept, Unwrap(smode), ascending) ELSE kept

\* ProcessManager::refresh after system.refresh_all() produced snapshot sys
pm_refresh(sys, fmode, fvalue, smode, ascending) ==
    LET updated == update_processes(sys, fmode, fvalue, smode, ascending)
    IN  IF IsSome(smode) THEN sort_processes(updated, Unwrap(smode), ascending) ELSE updated

\* The pids of a list
PidsOf(procs) == {procs[k].pid : k \in 1..Len(procs)}

----------------------------------------------------------------------------
(* GraphData (graph.rs)                                                    *)

\* The 500 ms of GraphData::new(60, 500), in time units of 250 ms
update_interval == 2

max_points == MaxPoints

RECURSIVE total_cpu(_)
\* "let total_cpu: f32 = ... map(|p| p.cpu_usage).sum()"
total_cpu(procs) ==
    IF procs = <<>> THEN 0 ELSE Head(procs).cpu_usage + total_cpu(Tail(procs))

RECURSIVE sum_memory(_)
sum_memory(procs) ==
    IF procs = <<>> THEN 0 ELSE Head(procs).memory_usage + sum_memory(Tail(procs))

\* "let total_memory: u64 = ... map(|p| p.memory_usage).sum::<u64>() / (1024 * 1024)"
total_memory(procs) == sum_memory(procs) \div (1024 * 1024)

\* Fault: push_back without the pop_front
push_unbounded(series, x) == Append(series, x)

\* Fault: at capacity the newest retained sample is dropped instead of the oldest
push_drop_newest(series, x) ==
    IF Len(series) >= max_points
    THEN Append(SubSeq(series, 1, Len(series) - 1), x)
    ELSE Append(series, x)

\* push_back, then pop_front when the length exceeds max_points
push_capped(series, x) ==
    LET pushed == Append(series, x)
    IN  IF Len(pushed) > max_points THEN Tail(pushed) ELSE pushed

\* The record of procs with the given pid
ByPid(procs, pid) == procs[CHOOSE k \in 1..Len(procs) : procs[k].pid = pid]

\* The loop over the processes followed by retain(): every listed pid gets its
\* sample pushed on its own series (a fresh one when it had none), and the
\* series of pids that are not listed are dropped
update_per_process(hist, procs) ==
    [pid \in PidsOf(procs) |->
        LET old == IF pid \in DOMAIN hist THEN hist[pid] ELSE <<  <<>>, <<>>  >>
            p   == ByPid(procs, pid)
        IN  << push_capped(old[1], p.cpu_usage), push_capped(old[2], p.memory_usage) >>]

\* Fault: the usage is the idle share of the interval
update_cpu_info_idle_share(info, stat) ==
    LET idle_delta  == stat.idle - info.last_idle
        total_delta == stat.total - info.last_total
    IN  [usage     |-> IF total_delta > 0
                       THEN (100 * idle_delta) \div total_delta
                       ELSE info.usage,
         last_idle  |-> stat.idle,
         last_total |-> stat.total]

\* GraphData::update_cpu_info for one core: stat = [idle, total] read from
\* /proc/stat; usage is a percentage
update_cpu_info(info, stat) ==
    LET idle_delta  == stat.idle - info.last_idle
        total_delta == stat.total - info.last_total
    IN  [usage     |-> IF total_delta > 0
                       THEN 100 - ((100 * idle_delta) \div total_delta)
                       ELSE info.usage,
         last_idle  |-> stat.idle,
         last_total |-> stat.total]

\* Fault: the early return is missing
rate_limited_never(elapsed) == FALSE

\* "if now.duration_since(self.last_update) < self.update_interval { return; }"
rate_limited(elapsed) == elapsed < update_interval

----------------------------------------------------------------------------
(* RuleEngine (scripting_rules.rs)                                         *)

IsDigit(c) == c >= 48 /\ c <= 57

RECURSIVE DecimalValue(_)
DecimalValue(s) ==
    IF s = <<>> THEN 0 ELSE 10 * DecimalValue(SubSeq(s, 1, Len(s) - 1)) + (s[Len(s)] - 48)

StripSpaces(s) == SelectSeq(s, LAMBDA c : ~IsWhitespace(c))

\* Engine::eval_with_scope::<bool> on the expressions "<lhs> > <integer>"
\* with lhs a variable of the scope evaluate_for pushes (pid, cpu, mem; mem in
\* MB as a float) or the integer quotient "<d>/(pid-<e>)" of two digits, whose
\* division by zero is an arithmetic error.  Every other text used here (a
\* bare variable, a missing operand, an unbound name, an empty script) is an
\* evaluation error.  Result: "true", "false" or "err".
eval_with_scope(rule, p) ==
    LET s   == StripSpaces(rule)
        gt  == {k \in 1..Len(s) : s[k] = 62}
        k   == CHOOSE k \in gt : TRUE
        lhs == SubSeq(s, 1, k - 1)
        rhs == SubSeq(s, k + 1, Len(s))
        quotient == /\ Len(lhs) = 9
                    /\ IsDigit(lhs[1]) /\ IsDigit(lhs[8])
                    /\ SubSeq(lhs, 2, 7) = <<47, 40, 112, 105, 100, 45>>
                    /\ lhs[9] = 41
        divisor == p.pid - (lhs[8] - 48)
        bound == lhs \in {<<112, 105, 100>>, <<99, 112, 117>>, <<109, 101, 109>>}
        \* mem is memory_usage / 1024 / 1024 as a float: compared in bytes
        unit == IF lhs = <<109, 101, 109>> THEN 1024 * 1024 ELSE 1
        val == CASE lhs = <<112, 105, 100>> -> p.pid
                 [] lhs = <<99, 112, 117>>  -> p.cpu_usage
                 [] lhs = <<109, 101, 109>> -> p.memory_usage
                 [] OTHER                   -> (lhs[1] - 48) \div divisor
    IN  IF /\ Cardinality(gt) = 1
           /\ rhs # <<>> /\ \A j \in 1..Len(rhs) : IsDigit(rhs[j])
           /\ (bound \/ (quotient /\ divisor > 0))
        THEN (IF val > DecimalValue(rhs) * unit THEN "true" ELSE "false")
        ELSE "err"

\* Fault: no trim() in the test for the empty rule
evaluate_for_untrimmed(rule, p) ==
    IF IsSome(rule) /\ Unwrap(rule) # <<>>
    THEN eval_with_scope(Unwrap(rule), p) = "true"
    ELSE TRUE

\* Fault: a record whose evaluation fails is let through
evaluate_for_err_true(rule, p) ==
    IF IsSome(rule) /\ trim(Unwrap(rule)) # <<>>
    THEN eval_with_scope(Unwrap(rule), p) # "false"
    ELSE TRUE

\* RuleEngine::evaluate_for
evaluate_for(rule, p) ==
    IF IsSome(rule) /\ trim(Unwrap(rule)) # <<>>
    THEN eval_with_scope(Unwrap(rule), p) = "true"
    ELSE TRUE

\* ProcessManager::apply_rules, read by get_filtered_processes: the records of
\* the list for which the rule evaluates to true
apply_rules(procs, rule) == SelectSeq(procs, LAMBDA p : evaluate_for(rule, p))

----------------------------------------------------------------------------
(* App (ui.rs)                                                             *)

\* "if self.process_exit_log.len() >= 100"
LogCapacity == 100

\* NaiveDateTime::parse_from_str(s, "%Y-%m-%d %H:%M:%S"): the text must have
\* the shape dddd-dd-dd dd:dd:dd; the value is the seconds of its time of day
\* and day-of-month part (enough to order two times of one month)
parse_start_time(s) ==
    LET d(k) == s[k] - 48
        shape == /\ Len(s) = 19
                 /\ s[5] = 45 /\ s[8] = 45 /\ s[11] = 32 /\ s[14] = 58 /\ s[17] = 58
                 /\ \A k \in {1, 2, 3, 4, 6, 7, 9, 10, 12, 13, 15, 16, 18, 19} : IsDigit(s[k])
    IN  IF shape
        THEN Some((10 * d(9) + d(10)) * 86400 + (10 * d(12) + d(13)) * 3600
                  + (10 * d(15) + d(16)) * 60 + 10 * d(18) + d(19))
        ELSE None

\* Fault: a start text that does not parse counts as time 0
uptime_secs_since_zero(start_text, exit_time) ==
    LET parsed == parse_start_time(start_text)
    IN  IF IsSome(parsed)
        THEN (IF exit_time - Unwrap(parsed) > 0 THEN exit_time - Unwrap(parsed) ELSE 0)
        ELSE exit_time

\* uptime_secs of an exit entry: 0 when the start text does not parse
uptime_secs(start_text, exit_time) ==
    LET parsed == parse_start_time(start_text)
    IN  IF IsSome(parsed)
        THEN (IF exit_time - Unwrap(parsed) > 0 THEN exit_time - Unwrap(parsed) ELSE 0)
        ELSE 0

\* The ProcessExitLogEntry built for a vanished process
exit_entry(proc, exit_time) ==
    [pid |-> proc.pid, name |-> proc.name, user |-> proc.user,
     start_time |-> proc.startTime, exit_time |-> exit_time,
     uptime_secs |-> uptime_secs(proc.startTime, exit_time)]

\* Fault: the log is popped only once it holds more than the capacity
log_push_late(log, entry) ==
    IF Len(log) > LogCapacity THEN Append(Tail(log), entry) ELSE Append(log, entry)

\* pop_front at capacity, then push_back
log_push(log, entry) ==
    IF Len(log) >= LogCapacity THEN Append(Tail(log), entry) ELSE Append(log, entry)

\* Fault: the entry of a vanished process is pushed twice
RECURSIVE detect_exits_twice(_, _, _, _)
detect_exits_twice(log, visit, prev_list, exit_time) ==
    IF visit = <<>> THEN log
    ELSE LET pid == Head(visit)
             entry == exit_entry(ByPid(prev_list, pid), exit_time)
             next == IF pid \in PidsOf(prev_list)
                     THEN log_push(log_push(log, entry), entry)
                     ELSE log
         IN  detect_exits_twice(next, Tail(visit), prev_list, exit_time)

\* The loop "for pid in prev_pids.difference(&current_set)" over the pids in
\* the order visit, with prev_map the list before the refresh
RECURSIVE detect_exits(_, _, _, _)
detect_exits(log, visit, prev_list, exit_time) ==
    IF visit = <<>> THEN log
    ELSE LET pid == Head(visit)
             next == IF pid \in PidsOf(prev_list)
                     THEN log_push(log, exit_entry(ByPid(prev_list, pid), exit_time))
                     ELSE log
         IN  detect_exits(next, Tail(visit), prev_list, exit_time)

\* Fault: the rotation of the ring buffer shows in the order of the entries
make_contiguous_rotating(log) ==
    IF log = <<>> THEN log ELSE Append(Tail(log), Head(log))

\* VecDeque::make_contiguous: the ring buffer is rearranged in memory so that
\* its elements lie in one slice; the sequence of elements stays as it is
make_contiguous(log) == log

\* What the Process Log view and its key handler do to the log when they list
\* it: make_contiguous() without a search text, a read-only iteration with one
log_listed(view, input, log) ==
    IF view = "ProcessLog" /\ input = <<>> THEN make_contiguous(log) ELSE log

\* The views whose draw function calls apply_rules when a rule is set
RuleViews == {"ProcessList", "KillStop", "ChangeNice"}

----------------------------------------------------------------------------
(* Initial state: App::new()                                               *)

\* App::new() when the process table is table and System::refresh_all
\* enumerates it in the order snapshot
InitWith(table, snapshot) ==
    /\ os = table
    /\ proc_stat = [c \in 1..NumCores |-> [idle |-> 0, total |-> 0]]
    /\ since_update = 0
    /\ wall = 0
    /\ system = snapshot
    /\ processes = <<>>
    /\ filtered_processes = <<>>
    /\ sort_mode = None
    /\ sort_ascending = TRUE
    /\ filter_mode = None
    /\ filter_value = None
    /\ cpu_history = <<>>
    /\ memory_history = <<>>
    /\ per_process_history = <<>>
    /\ cpu_infos = [c \in 1..NumCores |-> [usage |-> 0, last_idle |-> 0, last_total |-> 0]]
    /\ active_rule = None
    /\ view_mode = "ProcessList"
    /\ filter_input = <<>>
    /\ rule_input = <<>>
    /\ app_filter_mode = None
    /\ app_sort_mode = None
    /\ app_sort_ascending = TRUE
    /\ process_exit_log = <<>>
    /\ prev_pids = {}
    /\ pc = "refresh"
    /\ renice = <<>>
    /\ stopped = {}
    /\ ret = [op |-> "none"]
    /\ prev_map = <<>>
    /\ kill_stop_input_state = "SelectingPid"
    /\ nice_input_state = "SelectingPid"
    /\ nice_input = <<>>
    /\ selected_process_index = 0
    /\ selected_process_for_graph = None
    /\ current_stats_tab = "Graphs"
    /\ log_filter_input = <<>>
    /\ log_filter_active = FALSE
    /\ log_group_mode = "None"
    /\ log_scroll_offset = 0
    /\ highlighted = None

\* The program starts while only pid 1 runs
Init == InitWith({1}, <<1>>)

\* The program starts while the pids 1, 10 and 21 run
InitThree == \E snapshot \in Orders({1, 2, 3}) : InitWith({1, 2, 3}, snapshot)

----------------------------------------------------------------------------
(* The environment: operating system and clocks.  The loop spends its time *)
(* in event::poll and sleep, so the environment moves while pc = "events". *)

\* The operating system changes its process table only while the exit log is
\* shorter than limit (this bounds the runs)
OsSpawn(i, limit) ==
    /\ pc = "events"
    /\ Len(process_exit_log) < limit
    /\ i \notin os
    /\ UniquePids(os \cup {i})
    /\ os' = os \cup {i}
    /\ UNCHANGED <<proc_stat, since_update, wall, ctlVars, menuVars, prev_map, pmVars, graphVars, appVars, pc>>

OsExit(i, limit) ==
    /\ pc = "events"
    /\ Len(process_exit_log) < limit
    /\ i \in os
    /\ os' = os \ {i}
    /\ renice' = ReniceOf(os')
    /\ stopped' = stopped \cap PidsIn(os')
    /\ UNCHANGED <<prev_map, menuVars, proc_stat, since_update, wall, ret, pmVars, graphVars, appVars, pc>>

\* A running process changes its attributes (RawProcs holds both versions)
OsChange(i, j, limit) ==
    /\ pc = "events"
    /\ Len(process_exit_log) < limit
    /\ i \in os
    /\ j \notin os
    /\ i # j
    /\ RawProcs[i].pid = RawProcs[j].pid
    /\ os' = (os \ {i}) \cup {j}
    /\ UNCHANGED <<proc_stat, since_update, wall, ctlVars, menuVars, prev_map, pmVars, graphVars, appVars, pc>>

\* Time passes: one more unit since the last effective GraphData::update
Elapse ==
    /\ pc = "events"
    /\ since_update < update_interval
    /\ since_update' = since_update + 1
    /\ UNCHANGED <<os, proc_stat, wall, ctlVars, menuVars, prev_map, pmVars, graphVars, appVars, pc>>

\* The wall clock reaches the next second
WallTick(limit) ==
    /\ pc = "events"
    /\ wall < limit
    /\ wall' = wall + 1
    /\ UNCHANGED <<os, proc_stat, since_update, ctlVars, menuVars, prev_map, pmVars, graphVars, appVars, pc>>

\* The kernel advances the counters of core c: total by dt, of which idle by di
StatAdvance(c, di, dt) ==
    /\ pc = "events"
    /\ di <= dt
    /\ proc_stat[c].total + dt <= MaxStat
    /\ proc_stat' = [proc_stat EXCEPT ![c] = [idle |-> @.idle + di, total |-> @.total + dt]]
    /\ UNCHANGED <<os, since_update, wall, ctlVars, menuVars, prev_map, pmVars, graphVars, appVars, pc>>

\* The kernel advances the counters of core c by a longer interval
StatStride(c, di, dt) ==
    /\ pc = "events"
    /\ di <= dt
    /\ proc_stat[c].total + dt <= MaxCounter
    /\ proc_stat' = [proc_stat EXCEPT ![c] = [idle |-> @.idle + di, total |-> @.total + dt]]
    /\ UNCHANGED <<os, since_update, wall, ctlVars, menuVars, prev_map, pmVars, graphVars, appVars, pc>>

----------------------------------------------------------------------------
(* One iteration of the loop of ui_renderer: app.refresh(), terminal.draw  *)

\* GraphData::update: nothing when rate limited, else one sample everywhere
GraphUpdate(procs) ==
    IF rate_limited(since_update)
    THEN UNCHANGED <<graphVars, since_update>>
    ELSE /\ cpu_infos' = [c \in 1..NumCores |-> update_cpu_info(cpu_infos[c], proc_stat[c])]
         /\ cpu_history' = push_capped(cpu_history, total_cpu(procs))
         /\ memory_history' = push_capped(memory_history, total_memory(procs))
         /\ per_process_history' = update_per_process(per_process_history, procs)
         /\ since_update' = 0

\* App::refresh followed by the draw of the current view.  order is the
\* enumeration order of the new snapshot, visit the iteration order of
\* prev_pids.difference(&current_set).
Tick ==
    /\ pc = "refresh"
    /\ \E order \in Orders(os) :
         LET procs == pm_refresh(order, filter_mode, filter_value, sort_mode, sort_ascending)
         IN  /\ system' = order
             /\ processes' = procs
             /\ GraphUpdate(procs)
             /\ \E visit \in Orders(prev_pids \ PidsOf(procs)) :
                  process_exit_log' =
                      log_listed(view_mode, log_filter_input,
                                 detect_exits(process_exit_log, visit, processes, wall))
             /\ prev_pids' = PidsOf(procs)
             /\ filtered_processes' =
                  IF view_mode \in RuleViews /\ IsSome(active_rule)
                  THEN apply_rules(procs, active_rule)
                  ELSE filtered_processes
    /\ pc' = "events"
    /\ UNCHANGED <<os, proc_stat, wall, ctlVars, menuVars, prev_map, sort_mode, sort_ascending,
                   filter_mode, filter_value, active_rule, view_mode, filter_input,
                   rule_input, app_filter_mode, app_sort_mode, app_sort_ascending>>

\* handle_events when event::poll times out without a key
NoKey ==
    /\ pc = "events"
    /\ pc' = "refresh"
    /\ UNCHANGED <<envVars, ctlVars, menuVars, prev_map, pmVars, graphVars, appVars>>

----------------------------------------------------------------------------
(* Key handling (ui.rs)                                                    *)

KeyChar(c) == [code |-> "Char", ch |-> c]

Key(code) == [code |-> code, ch |-> 0]

\* ProcessManager::set_sort
set_sort(mode, ascending) ==
    /\ sort_mode' = Some(mode)
    /\ sort_ascending' = ascending
    /\ processes' = sort_processes(processes, mode, ascending)

\* ProcessManager::set_filter: the list is rebuilt from the snapshot held
set_filter(mode, value) ==
    /\ filter_mode' = mode
    /\ filter_value' = value
    /\ processes' = update_processes(system, mode, value, sort_mode, sort_ascending)

\* What handle_events does to the loop: the key is consumed; the loop goes on
\* unless the handler returned true (quit), which leaves the loop
KeyDone(quit) ==
    /\ pc = "events"
    /\ pc' = IF quit THEN "done" ELSE "refresh"
    /\ UNCHANGED <<os, proc_stat, since_update, wall, ctlVars, prev_map, graphVars,
                   process_exit_log, prev_pids, system>>

\* Fault: 'a' flips the flag of App and leaves the registry alone
ToggleAscendingLocal ==
    /\ app_sort_ascending' = ~app_sort_ascending
    /\ UNCHANGED <<sort_mode, sort_ascending, processes>>

\* The 'a' arm of handle_process_list_input and of handle_sort_input
ToggleAscending ==
    /\ app_sort_ascending' = ~app_sort_ascending
    /\ IF IsSome(app_sort_mode)
       THEN set_sort(Unwrap(app_sort_mode), ~app_sort_ascending)
       ELSE UNCHANGED <<sort_mode, sort_ascending, processes>>

\* handle_process_list_input
handle_process_list_input(key) ==
    /\ view_mode = "ProcessList"
    /\ KeyDone(key = KeyChar(113))
    /\ IF key = KeyChar(97)
       THEN /\ ToggleAscending
            /\ UNCHANGED view_mode
       ELSE /\ view_mode' = CASE key \in {KeyChar(115), KeyChar(83)} -> "Statistics"
                              [] key = KeyChar(49) -> "FilterSort"
                              [] key = KeyChar(50) -> "ChangeNice"
                              [] key = KeyChar(51) -> "KillStop"
                              [] key = KeyChar(52) -> "PerProcessGraph"
                              [] key = KeyChar(53) -> "ProcessLog"
                              [] key = KeyChar(54) -> "Help"
                              [] OTHER -> view_mode
            /\ UNCHANGED <<app_sort_ascending, sort_mode, sort_ascending, processes>>
    /\ selected_process_index' = IF key = KeyChar(52) THEN 0 ELSE selected_process_index
    /\ selected_process_for_graph' = IF key = KeyChar(52) THEN None
                                     ELSE selected_process_for_graph
    /\ UNCHANGED <<filtered_processes, filter_mode, filter_value, active_rule, filter_input,
                   rule_input, app_filter_mode, app_sort_mode, kill_stop_input_state,
                   nice_input_state, nice_input, current_stats_tab, log_filter_input,
                   log_filter_active, log_group_mode, log_scroll_offset, highlighted>>

\* handle_filter_sort_input
handle_filter_sort_input(key) ==
    /\ view_mode = "FilterSort"
    /\ KeyDone(FALSE)
    /\ view_mode' = CASE key = KeyChar(49) -> "Sort"
                      [] key = KeyChar(50) -> "Filter"
                      [] key = KeyChar(120) -> "RuleInput"
                      [] key \in {Key("Backspace"), Key("Esc")} -> "ProcessList"
                      [] OTHER -> view_mode
    /\ rule_input' = IF key = KeyChar(120) THEN <<>> ELSE rule_input
    /\ UNCHANGED <<processes, filtered_processes, sort_mode, sort_ascending, filter_mode,
                   filter_value, active_rule, filter_input, app_filter_mode, app_sort_mode,
                   app_sort_ascending>>
    /\ UNCHANGED menuVars

\* The sort key that handle_sort_input binds to the keys '1'..'6'
SortKeyOf(key) ==
    CASE key = KeyChar(49) -> Some("pid")
      [] key = KeyChar(50) -> Some("mem")
      [] key = KeyChar(51) -> Some("ppid")
      [] key = KeyChar(52) -> Some("start")
      [] key = KeyChar(53) -> Some("nice")
      [] key = KeyChar(54) -> Some("cpu")
      [] OTHER -> None

\* handle_sort_input
handle_sort_input(key) ==
    /\ view_mode = "Sort"
    /\ KeyDone(FALSE)
    /\ IF IsSome(SortKeyOf(key))
       THEN /\ app_sort_mode' = SortKeyOf(key)
            /\ set_sort(Unwrap(SortKeyOf(key)), app_sort_ascending)
            /\ view_mode' = "ProcessList"
            /\ UNCHANGED app_sort_ascending
       ELSE IF key = KeyChar(97)
       THEN /\ ToggleAscending
            /\ UNCHANGED <<view_mode, app_sort_mode>>
       ELSE /\ view_mode' = IF key \in {Key("Backspace"), Key("Esc")}
                             THEN "FilterSort" ELSE view_mode
            /\ UNCHANGED <<app_sort_mode, app_sort_ascending, sort_mode, sort_ascending,
                           processes>>
    /\ UNCHANGED <<filtered_processes, filter_mode, filter_value, active_rule, filter_input,
                   rule_input, app_filter_mode>>
    /\ UNCHANGED menuVars

\* The filter mode that handle_filter_input binds to the keys '1'..'4'
FilterModeOf(key) ==
    CASE key = KeyChar(49) -> Some("user")
      [] key = KeyChar(50) -> Some("name")
      [] key = KeyChar(51) -> Some("pid")
      [] key = KeyChar(52) -> Some("ppid")
      [] OTHER -> None

\* The Esc arm of both views of handle_filter_input
ClearFilter ==
    /\ app_filter_mode' = None
    /\ filter_input' = <<>>
    /\ set_filter(None, None)
    /\ view_mode' = "ProcessList"

\* handle_filter_input, ViewMode::Filter
handle_filter_input_menu(key) ==
    /\ view_mode = "Filter"
    /\ KeyDone(FALSE)
    /\ IF IsSome(FilterModeOf(key))
       THEN /\ app_filter_mode' = FilterModeOf(key)
            /\ filter_input' = <<>>
            /\ view_mode' = "FilterInput"
            /\ UNCHANGED <<filter_mode, filter_value, processes>>
       ELSE IF key = Key("Esc")
       THEN ClearFilter
       ELSE /\ view_mode' = IF key \in {Key("Backspace"), Key("Left")}
                             THEN "FilterSort" ELSE view_mode
            /\ UNCHANGED <<app_filter_mode, filter_input, filter_mode, filter_value, processes>>
    /\ UNCHANGED <<filtered_processes, sort_mode, sort_ascending, active_rule, rule_input,
                   app_sort_mode, app_sort_ascending>>
    /\ UNCHANGED menuVars

\* handle_filter_input, ViewMode::FilterInput
handle_filter_input_text(key) ==
    /\ view_mode = "FilterInput"
    /\ KeyDone(FALSE)
    /\ IF key.code = "Char"
       THEN /\ filter_input' =
                 IF IsSome(app_filter_mode)
                    /\ ~(Unwrap(app_filter_mode) \in {"pid", "ppid"} /\ ~IsDigit(key.ch))
                 THEN Append(filter_input, key.ch)
                 ELSE filter_input
            /\ UNCHANGED <<view_mode, app_filter_mode, filter_mode, filter_value, processes>>
       ELSE IF key = Key("Backspace")
       THEN /\ filter_input' = SubSeq(filter_input, 1, Len(filter_input) - 1)
            /\ UNCHANGED <<view_mode, app_filter_mode, filter_mode, filter_value, processes>>
       ELSE IF key = Key("Enter")
       THEN IF filter_input # <<>>
            THEN /\ set_filter(app_filter_mode, Some(filter_input))
                 /\ view_mode' = "ProcessList"
                 /\ UNCHANGED <<filter_input, app_filter_mode>>
            ELSE UNCHANGED <<view_mode, filter_input, app_filter_mode, filter_mode,
                             filter_value, processes>>
       ELSE IF key = Key("Left")
       THEN /\ view_mode' = "Filter"
            /\ filter_input' = <<>>
            /\ UNCHANGED <<app_filter_mode, filter_mode, filter_value, processes>>
       ELSE IF key = Key("Esc")
       THEN ClearFilter
       ELSE UNCHANGED <<view_mode, filter_input, app_filter_mode, filter_mode, filter_value,
                        processes>>
    /\ UNCHANGED <<filtered_processes, sort_mode, sort_ascending, active_rule, rule_input,
                   app_sort_mode, app_sort_ascending>>
    /\ UNCHANGED menuVars

\* handle_script_input
handle_script_input(key) ==
    /\ view_mode = "RuleInput"
    /\ KeyDone(FALSE)
    /\ IF key = Key("Enter")
       THEN /\ active_rule' = Some(trim(rule_input))
            /\ filtered_processes' = apply_rules(processes, Some(trim(rule_input)))
            /\ view_mode' = "ProcessList"
            /\ UNCHANGED rule_input
       ELSE /\ view_mode' = IF key = Key("Esc") THEN "ProcessList" ELSE view_mode
            /\ rule_input' = CASE key.code = "Char" -> Append(rule_input, key.ch)
                                [] key = Key("Backspace") ->
                                     SubSeq(rule_input, 1, Len(rule_input) - 1)
                                [] OTHER -> rule_input
            /\ UNCHANGED <<active_rule, filtered_processes>>
    /\ UNCHANGED <<processes, sort_mode, sort_ascending, filter_mode, filter_value,
                   filter_input, app_filter_mode, app_sort_mode, app_sort_ascending>>
    /\ UNCHANGED menuVars

\* The tab that handle_statistics_input binds to the keys '1'..'8'
StatsTabOf(key) ==
    CASE key = KeyChar(49) -> "Graphs"
      [] key = KeyChar(50) -> "Overview"
      [] key = KeyChar(51) -> "CPU"
      [] key = KeyChar(52) -> "Memory"
      [] key = KeyChar(53) -> "Disk"
      [] key = KeyChar(54) -> "Processes"
      [] key = KeyChar(55) -> "Advanced"
      [] key = KeyChar(56) -> "Help"
      [] OTHER -> current_stats_tab

\* handle_statistics_input (the scroll offset of the CPU tab is left out)
handle_statistics_input(key) ==
    /\ view_mode = "Statistics"
    /\ KeyDone(FALSE)
    /\ IF key \in {KeyChar(113), Key("Esc"), KeyChar(115), KeyChar(83)}
       THEN /\ view_mode' = "ProcessList"
            /\ current_stats_tab' = "Graphs"
       ELSE /\ current_stats_tab' = StatsTabOf(key)
            /\ UNCHANGED view_mode
    /\ UNCHANGED <<processes, filtered_processes, sort_mode, sort_ascending, filter_mode,
                   filter_value, active_rule, filter_input, rule_input, app_filter_mode,
                   app_sort_mode, app_sort_ascending, kill_stop_input_state,
                   nice_input_state, nice_input, selected_process_index,
                   selected_process_for_graph, log_filter_input, log_filter_active,
                   log_group_mode, log_scroll_offset, highlighted>>

\* processes.iter().position(|p| p.pid == pid), counted from 0; Len when absent
position(procs, pid) ==
    IF pid \in PidsOf(procs)
    THEN (CHOOSE k \in 1..Len(procs) :
            procs[k].pid = pid /\ \A j \in 1..(k - 1) : procs[j].pid # pid) - 1
    ELSE Len(procs)

\* handle_per_process_graph_input (the scroll offset is left out); 'q'
\* returns true
handle_per_process_graph_input(key) ==
    /\ view_mode = "PerProcessGraph"
    /\ KeyDone(key = KeyChar(113))
    /\ view_mode' = IF key = KeyChar(113)
                       \/ (key = Key("Esc") /\ ~IsSome(selected_process_for_graph))
                    THEN "ProcessList" ELSE view_mode
    /\ selected_process_for_graph' =
         LET sel == selected_process_for_graph
             idx == position(processes, Unwrap(sel))
         IN  CASE key = KeyChar(113) -> None
               [] key = Key("Left") /\ IsSome(sel) ->
                    IF idx < Len(processes) /\ idx > 0
                    THEN Some(processes[idx].pid) ELSE sel
               [] key = Key("Right") /\ IsSome(sel) ->
                    IF idx + 1 < Len(processes)
                    THEN Some(processes[idx + 2].pid) ELSE sel
               [] key \in {Key("Up"), Key("Down"), Key("Esc")} -> None
               [] key = Key("Enter") /\ ~IsSome(sel) ->
                    IF selected_process_index < Len(processes)
                    THEN Some(processes[selected_process_index + 1].pid) ELSE sel
               [] OTHER -> sel
    /\ selected_process_index' =
         CASE key = Key("Up") /\ ~IsSome(selected_process_for_graph)
                /\ selected_process_index > 0 -> selected_process_index - 1
           [] key = Key("Down") /\ ~IsSome(selected_process_for_graph)
                /\ selected_process_index + 1 < Len(processes) -> selected_process_index + 1
           [] OTHER -> selected_process_index
    /\ UNCHANGED <<processes, filtered_processes, sort_mode, sort_ascending, filter_mode,
                   filter_value, active_rule, filter_input, rule_input, app_filter_mode,
                   app_sort_mode, app_sort_ascending, kill_stop_input_state,
                   nice_input_state, nice_input, current_stats_tab, log_filter_input,
                   log_filter_active, log_group_mode, log_scroll_offset, highlighted>>

\* The entries of the log the Process Log view lists for the search text
log_filtered(log, input) ==
    IF input = <<>> THEN log
    ELSE LET query == to_lowercase(input)
         IN  SelectSeq(log, LAMBDA entry :
                 \/ contains(to_lowercase(entry.name), query)
                 \/ (IsSome(entry.user) /\ contains(to_lowercase(Unwrap(entry.user)), query))
                 \/ contains(to_string(entry.pid), query))

\* The rows of a page of the Process Log view as handle_process_log_input
\* takes them
log_height == 10

\* log.len().saturating_sub(log_height)
max_scroll(log) == IF Len(log) > log_height THEN Len(log) - log_height ELSE 0

Min(a, b) == IF a < b THEN a ELSE b

\* The group mode that follows on 'g'
NextGroupMode(mode) ==
    CASE mode = "None" -> "Name"
      [] mode = "Name" -> "PPID"
      [] mode = "PPID" -> "User"
      [] OTHER -> "None"

\* handle_process_log_input
handle_process_log_input(key) ==
    /\ view_mode = "ProcessLog"
    /\ pc = "events"
    /\ pc' = "refresh"
    /\ process_exit_log' = log_listed(view_mode, log_filter_input, process_exit_log)
    /\ UNCHANGED <<os, proc_stat, since_update, wall, ctlVars, prev_map, graphVars,
                   prev_pids, system>>
    /\ LET log == log_filtered(process_exit_log, log_filter_input)
           top == max_scroll(log)
       IN  IF log_filter_active
           THEN /\ log_filter_active' = (key \notin {Key("Esc"), Key("Enter")})
                /\ log_filter_input' =
                     CASE key = Key("Esc") -> <<>>
                       [] key = Key("Backspace") ->
                            SubSeq(log_filter_input, 1, Len(log_filter_input) - 1)
                       [] key.code = "Char" -> Append(log_filter_input, key.ch)
                       [] OTHER -> log_filter_input
                /\ log_scroll_offset' =
                     IF key \in {Key("Esc"), Key("Enter"), Key("Backspace")}
                        \/ key.code = "Char"
                     THEN 0 ELSE log_scroll_offset
                /\ UNCHANGED <<view_mode, log_group_mode>>
           ELSE /\ log_group_mode' =
                     CASE key = KeyChar(103) -> NextGroupMode(log_group_mode)
                       [] key = KeyChar(117) -> "None"
                       [] OTHER -> log_group_mode
                /\ log_filter_active' =
                     CASE key = KeyChar(47) -> TRUE
                       [] key \in {Key("Esc"), KeyChar(113)} -> FALSE
                       [] OTHER -> log_filter_active
                /\ log_filter_input' =
                     IF key \in {KeyChar(47), Key("Esc"), KeyChar(113)}
                     THEN <<>> ELSE log_filter_input
                /\ view_mode' = IF key \in {Key("Esc"), KeyChar(113)}
                                THEN "ProcessList" ELSE view_mode
                /\ log_scroll_offset' =
                     CASE key \in {KeyChar(103), KeyChar(117), KeyChar(47), Key("Esc"),
                                   KeyChar(113)} -> 0
                       [] key = Key("Up") ->
                            Min(IF log_scroll_offset > 0 THEN log_scroll_offset - 1 ELSE 0, top)
                       [] key = Key("Down") -> Min(log_scroll_offset + 1, top)
                       [] key = Key("PageUp") ->
                            Min(IF log_scroll_offset > log_height
                                THEN log_scroll_offset - log_height ELSE 0, top)
                       [] key = Key("PageDown") -> Min(log_scroll_offset + log_height, top)
                       [] OTHER -> log_scroll_offset
    /\ UNCHANGED <<processes, filtered_processes, sort_mode, sort_ascending, filter_mode,
                   filter_value, active_rule, filter_input, rule_input, app_filter_mode,
                   app_sort_mode, app_sort_ascending, kill_stop_input_state,
                   nice_input_state, nice_input, selected_process_index,
                   selected_process_for_graph, current_stats_tab, highlighted>>

\* The ViewMode::Help arm of handle_events: the key is read and dropped
handle_help_input(key) ==
    /\ view_mode = "Help"
    /\ KeyDone(FALSE)
    /\ UNCHANGED <<pmVars, appVars, menuVars>>

----------------------------------------------------------------------------
(* The user                                                                *)

\* Texts the user types into the filter prompt: "b", "A", "r", "1"
FilterTexts == {<<98>>, <<65>>, <<114>>, <<49>>}

\* Texts the user types into the rule prompt: "pid>9", " "
RuleTexts == {<<112, 105, 100, 62, 57>>, <<32>>}

IsPrefix(s, t) == Len(s) <= Len(t) /\ SubSeq(t, 1, Len(s)) = s

\* The keys of the keyboard used here
Keys ==
    {KeyChar(c) : c \in {32, 49, 50, 51, 52, 53, 54, 57, 62, 65, 97, 98, 100, 105, 112, 113,
                          114, 120}}
    \cup {Key(k) : k \in {"Esc", "Enter", "Backspace", "Left"}}

\* The user stays in the process list and the menus of filter, sort and rule
StaysInMenus(key) ==
    ~(view_mode = "ProcessList"
      /\ key \in {KeyChar(c) : c \in {50, 51, 52, 53, 54, 83, 115}})

\* The keys of the Process Log view, with 'x' for the search text "x"
LogKeys ==
    {KeyChar(c) : c \in {47, 53, 103, 113, 117, 120}}
    \cup {Key(k) : k \in {"Esc", "Enter", "Backspace", "Up", "Down", "PageUp", "PageDown"}}

\* The user opens the Process Log view from the process list, types at most
\* "x" into its search prompt and scrolls down from the top only
LogUser(key) ==
    /\ key \in LogKeys
    /\ view_mode = "ProcessList" => key = KeyChar(53)
    /\ (log_filter_active /\ key.code = "Char") => (key.ch = 120 /\ log_filter_input = <<>>)
    /\ key \in {Key("Down"), Key("PageDown")} => log_scroll_offset = 0

\* The user types only the texts above into a prompt
UserPresses(key) ==
    /\ key \in Keys
    /\ (view_mode = "FilterInput" /\ key.code = "Char")
          => \E t \in FilterTexts : IsPrefix(Append(filter_input, key.ch), t)
    /\ (view_mode = "RuleInput" /\ key.code = "Char")
          => \E t \in RuleTexts : IsPrefix(Append(rule_input, key.ch), t)

\* handle_events: the key goes to the handler of the current view
handle_events(key) ==
    \/ handle_process_list_input(key)
    \/ handle_filter_sort_input(key)
    \/ handle_sort_input(key)
    \/ handle_filter_input_menu(key)
    \/ handle_filter_input_text(key)
    \/ handle_script_input(key)

----------------------------------------------------------------------------
(* Specifications                                                          *)

OsMoves ==
    \/ \E i \in ProcIds : OsSpawn(i, MaxExits)
    \/ \E i \in ProcIds : OsExit(i, MaxExits)
    \/ \E i, j \in ProcIds : OsChange(i, j, MaxExits)

StatMoves == \E c \in 1..NumCores, di, dt \in 0..1 : dt > 0 /\ StatAdvance(c, di, dt)

\* The application: the loop of ui_renderer with its user and its environment
Next ==
    \/ OsMoves
    \/ Elapse
    \/ WallTick(MaxWall)
    \/ StatMoves
    \/ Tick
    \/ NoKey
    \/ \E key \in Keys : UserPresses(key) /\ handle_events(key)

Spec == Init /\ [][Next]_vars

\* The application left alone (no key is pressed) while processes come and go
NextGraph ==
    \/ OsMoves
    \/ Elapse
    \/ Tick
    \/ NoKey

SpecGraph == Init /\ [][NextGraph]_vars

\* The application left alone with a fixed process table while the kernel
\* counters advance
NextStat ==
    \/ Elapse
    \/ StatMoves
    \/ Tick
    \/ NoKey

SpecStat == Init /\ [][NextStat]_vars

\* The application left alone with a fixed process table while the kernel
\* counters advance by 100 or 200 ticks, of which 0, 50 or 100 idle
NextCpu ==
    \/ Elapse
    \/ \E c \in 1..NumCores, di \in {0, 50, 100}, dt \in {100, 200} : StatStride(c, di, dt)
    \/ Tick
    \/ NoKey

SpecCpu == Init /\ [][NextCpu]_vars

\* The user stays in the process list and the filter menus
NextFilter ==
    \/ OsMoves
    \/ Tick
    \/ NoKey
    \/ \E key \in Keys :
         /\ UserPresses(key)
         /\ StaysInMenus(key)
         /\ \/ handle_process_list_input(key)
            \/ handle_filter_sort_input(key)
            \/ handle_filter_input_menu(key)
            \/ handle_filter_input_text(key)

SpecFilter == Init /\ [][NextFilter]_vars

\* The user stays in the process list and the filter menus while time passes
\* and the process table stays as it is
NextHistory ==
    \/ Elapse
    \/ Tick
    \/ NoKey
    \/ \E key \in Keys :
         /\ UserPresses(key)
         /\ StaysInMenus(key)
         /\ \/ handle_process_list_input(key)
            \/ handle_filter_sort_input(key)
            \/ handle_filter_input_menu(key)
            \/ handle_filter_input_text(key)

SpecHistory == Init /\ [][NextHistory]_vars

\* The user sets filters and rules while the process with pid 21 starts
NextRule ==
    \/ OsSpawn(3, MaxExits)
    \/ Tick
    \/ NoKey
    \/ \E key \in Keys :
         /\ UserPresses(key)
         /\ StaysInMenus(key)
         /\ \/ handle_process_list_input(key)
            \/ handle_filter_sort_input(key)
            \/ handle_filter_input_menu(key)
            \/ handle_filter_input_text(key)
            \/ handle_script_input(key)

SpecRule == Init /\ [][NextRule]_vars

----------------------------------------------------------------------------
(* The registry on its own: the public methods of ProcessManager           *)

\* ProcessManager::refresh: refresh_all reads the process table, which has
\* become S by then, in some enumeration order
PmRefreshOf(S) ==
    /\ /\ UniquePids(S)
       /\ os' = S
       /\ \E order \in Orders(S) :
            /\ system' = order
            /\ processes' = pm_refresh(order, filter_mode, filter_value, sort_mode,
                                       sort_ascending)
    /\ renice' = ReniceOf(os')
    /\ stopped' = stopped \cap PidsIn(os')
    /\ UNCHANGED <<prev_map, menuVars, proc_stat, since_update, wall, ret, filtered_processes, sort_mode,
                   sort_ascending, filter_mode, filter_value, graphVars, appVars, pc>>

\* ProcessManager::refresh after any change of the process table
PmRefresh == \E S \in SUBSET ProcIds : PmRefreshOf(S)

\* ProcessManager::set_sort
PmSetSort(mode, ascending) ==
    /\ set_sort(mode, ascending)
    /\ UNCHANGED <<envVars, ctlVars, menuVars, prev_map, system, filtered_processes, filter_mode, filter_value,
                   graphVars, appVars, pc>>

\* ProcessManager::set_filter
PmSetFilter(mode, value) ==
    /\ set_filter(mode, value)
    /\ UNCHANGED <<envVars, ctlVars, menuVars, prev_map, system, filtered_processes, sort_mode, sort_ascending,
                   graphVars, appVars, pc>>

\* The modes a caller hands to set_sort: the six keys and an unknown one ("name")
SortArgs == SortModes \cup {"name"}

\* The modes and values a caller hands to set_filter: the four modes, an
\* unknown one ("cmd") and none; the texts of FilterTexts and none
FilterModeArgs == {None} \cup {Some(m) : m \in {"user", "name", "pid", "ppid", "cmd"}}

FilterValueArgs == {None} \cup {Some(t) : t \in FilterTexts}

NextRegistry ==
    \/ PmRefresh
    \/ \E mode \in SortArgs, ascending \in BOOLEAN : PmSetSort(mode, ascending)
    \/ \E mode \in FilterModeArgs, value \in FilterValueArgs : PmSetFilter(mode, value)

SpecRegistry == Init /\ [][NextRegistry]_vars

----------------------------------------------------------------------------
(* Process control: set_niceness, kill_process, stop_process and the calls *)
(* of libc they make                                                       *)

\* The user an unprivileged caller runs as: "ro"
CallerUser == <<114, 111>>

\* The process of the table with the given pid, if any
Target(pid) == {i \in os : RawProcs[i].pid = pid}

Owned(i) == RawProcs[i].user = Some(CallerUser)

\* The errno of setpriority(PRIO_PROCESS, pid, nice) ("0": success).  root:
\* geteuid() is 0.  rlimit: RLIMIT_NICE of the caller permits this niceness.
setpriority(pid, nice, root, rlimit) ==
    IF Target(pid) = {} THEN "ESRCH"
    ELSE LET i == CHOOSE i \in Target(pid) : TRUE
         IN  IF root THEN "0"
             ELSE IF ~Owned(i) THEN "EPERM"
             ELSE IF nice < NiceOf(i) /\ ~rlimit THEN "EACCES"
             ELSE "0"

\* The errno of kill(pid, sig)
kill(pid, root) ==
    IF Target(pid) = {} THEN "ESRCH"
    ELSE IF root \/ Owned(CHOOSE i \in Target(pid) : TRUE) THEN "0"
    ELSE "EPERM"

\* The io::ErrorKind of std::io::Error::last_os_error()
last_os_error(errno) ==
    IF errno \in {"EPERM", "EACCES"} THEN "PermissionDenied" ELSE "Uncategorized"

\* Fault: the privilege is checked before the range
set_niceness_privilege_first(nice, root) ==
    IF nice < 0 /\ ~root THEN "PermissionDenied"
    ELSE IF nice < -20 \/ nice > 19 THEN "InvalidInput"
    ELSE "setpriority"

\* Fault: the privilege is left to the operating system
set_niceness_unchecked(nice, root) ==
    IF nice < -20 \/ nice > 19 THEN "InvalidInput" ELSE "setpriority"

\* The checks of set_niceness ahead of the call of setpriority: the error
\* they return, or "setpriority" when they pass
set_niceness_checks(nice, root) ==
    IF nice < -20 \/ nice > 19 THEN "InvalidInput"
    ELSE IF nice < 0 /\ ~root THEN "PermissionDenied"
    ELSE "setpriority"

\* What the caller knows of the target at the time of the call
TargetInfo(pid) ==
    IF Target(pid) = {} THEN None
    ELSE LET i == CHOOSE i \in Target(pid) : TRUE
         IN  Some([nice |-> NiceOf(i), owned |-> Owned(i)])

\* ProcessManager::set_niceness
PmSetNiceness(pid, nice, root, rlimit) ==
    LET checks == set_niceness_checks(nice, root)
        errno  == setpriority(pid, nice, root, rlimit)
        called == checks = "setpriority"
    IN  /\ ret' = [op |-> "set_niceness", pid |-> pid, nice |-> nice, root |-> root,
                   target |-> TargetInfo(pid),
                   calls |-> IF called
                             THEN << [call |-> "setpriority", pid |-> pid, arg |-> nice] >>
                             ELSE << >>,
                   value |-> IF ~called THEN checks
                             ELSE IF errno = "0" THEN "Ok" ELSE last_os_error(errno)]
        /\ renice' = IF called /\ errno = "0"
                     THEN [p \in DOMAIN renice \cup {pid} |->
                              IF p = pid THEN nice ELSE renice[p]]
                     ELSE renice
        /\ UNCHANGED <<prev_map, menuVars, envVars, stopped, pmVars, graphVars, appVars, pc>>


\* Fault: a signal that failed is sent once more
send_signal_retrying(pid, sig, errno) ==
    LET attempt == [call |-> "kill", pid |-> pid, arg |-> sig]
    IN  [calls |-> IF errno = "0" THEN << attempt >> ELSE << attempt, attempt >>,
         value |-> IF errno = "0" THEN "Ok" ELSE errno]

\* The body of stop_process and kill_process: one kill(pid, sig), whose
\* failure is returned as Err(last_os_error())
send_signal(pid, sig, errno) ==
    [calls |-> << [call |-> "kill", pid |-> pid, arg |-> sig] >>,
     value |-> IF errno = "0" THEN "Ok" ELSE errno]

\* ProcessManager::kill_process; the operating system removes the process
\* that SIGKILL reaches
PmKill(pid, root) ==
    LET errno == kill(pid, root)
        sent  == send_signal(pid, "SIGKILL", errno)
    IN  /\ ret' = [op |-> "kill_process", pid |-> pid, root |-> root, errno |-> errno,
                   calls |-> sent.calls, value |-> sent.value]
        /\ os' = IF errno = "0" THEN os \ Target(pid) ELSE os
        /\ renice' = ReniceOf(os')
        /\ stopped' = stopped \cap PidsIn(os')
        /\ UNCHANGED <<prev_map, menuVars, proc_stat, since_update, wall, pmVars, graphVars, appVars, pc>>

\* ProcessManager::stop_process; the operating system stops the process that
\* SIGSTOP reaches
PmStop(pid, root) ==
    LET errno == kill(pid, root)
        sent  == send_signal(pid, "SIGSTOP", errno)
    IN  /\ ret' = [op |-> "stop_process", pid |-> pid, root |-> root, errno |-> errno,
                   calls |-> sent.calls, value |-> sent.value]
        /\ stopped' = IF errno = "0" THEN stopped \cup {pid} ELSE stopped
        /\ UNCHANGED <<prev_map, menuVars, envVars, renice, pmVars, graphVars, appVars, pc>>

\* The pids handed to the three methods: owned by the caller (10), of
\* another user (21), of no process (99)
PidArgs == {10, 21, 99}

\* The niceness values handed to set_niceness
NiceArgs == {-21, -5, 10, 15, 20}

\* set_niceness is called on a registry that is refreshed now and then
NextNice ==
    \/ PmRefreshOf(os)
    \/ \E pid \in PidArgs, nice \in NiceArgs, root \in BOOLEAN, rlimit \in BOOLEAN :
         PmSetNiceness(pid, nice, root, rlimit)

SpecNice == InitThree /\ [][NextNice]_vars

\* kill_process and stop_process are called on a registry that is refreshed
\* now and then
NextSignal ==
    \/ PmRefreshOf(os)
    \/ \E pid \in PidArgs, root \in BOOLEAN : PmKill(pid, root)
    \/ \E pid \in PidArgs, root \in BOOLEAN : PmStop(pid, root)

SpecSignal == InitThree /\ [][NextSignal]_vars

(* The Kill/Stop menu and the Change Nice menu *)

\* The list the Kill/Stop menu and the Change Nice menu draw: the rule's
\* list when a rule is set, else the registry's list
menu_rows == IF IsSome(active_rule) THEN filtered_processes ELSE processes

\* The pid of the row drawn highlighted: the row at selected_process_index
highlighted_pid ==
    IF selected_process_index < Len(menu_rows)
    THEN Some(menu_rows[selected_process_index + 1].pid)
    ELSE None

\* processes.get(app.selected_process_index) in the two handlers
selected_process ==
    IF selected_process_index < Len(processes)
    THEN Some(processes[selected_process_index + 1])
    ELSE None

\* The Up and Down arms of the two menus (scroll offsets left out)
move_selection(key) ==
    CASE key = Key("Up") /\ selected_process_index > 0 -> selected_process_index - 1
      [] key = Key("Down") /\ selected_process_index + 1 < Len(processes) ->
           selected_process_index + 1
      [] OTHER -> selected_process_index

\* The signal sent by continue_process and by terminate_process, the two
\* methods the menu calls besides kill_process and stop_process
signal_of_method(op) == IF op = "continue_process" THEN "SIGCONT" ELSE "SIGTERM"

\* The method and the signal that handle_kill_stop_input binds to a key
SignalOf(key) ==
    CASE key = KeyChar(107) -> [op |-> "kill_process", sig |-> "SIGKILL"]
      [] key = KeyChar(115) -> [op |-> "stop_process", sig |-> "SIGSTOP"]
      [] key = KeyChar(99)  -> [op |-> "continue_process",
                                sig |-> signal_of_method("continue_process")]
      [] OTHER              -> [op |-> "terminate_process",
                                sig |-> signal_of_method("terminate_process")]

\* A signal method of ProcessManager called from the menu, and what the
\* operating system does with the process the signal reaches
signal_call(op, sig, pid, root) ==
    LET errno == kill(pid, root)
        sent  == send_signal(pid, sig, errno)
    IN  /\ ret' = [op |-> op, pid |-> pid, root |-> root, errno |-> errno,
                   calls |-> sent.calls, value |-> sent.value]
        /\ os' = IF errno = "0" /\ sig \in {"SIGKILL", "SIGTERM"} THEN os \ Target(pid) ELSE os
        /\ renice' = ReniceOf(os')
        /\ stopped' = CASE errno # "0" -> stopped
                        [] sig = "SIGSTOP" -> stopped \cup {pid}
                        [] sig = "SIGCONT" -> stopped \ {pid}
                        [] OTHER -> stopped \cap PidsIn(os')

\* handle_kill_stop_input
handle_kill_stop_input(key) ==
    /\ view_mode = "KillStop"
    /\ pc = "events"
    /\ pc' = "refresh"
    /\ IF kill_stop_input_state = "SelectingPid"
       THEN /\ selected_process_index' = move_selection(key)
            /\ kill_stop_input_state' =
                 IF key = Key("Enter") /\ processes # <<>>
                 THEN "EnteringAction" ELSE kill_stop_input_state
            /\ highlighted' = IF key = Key("Enter") /\ processes # <<>>
                              THEN highlighted_pid ELSE highlighted
            /\ view_mode' = IF key = Key("Esc") THEN "ProcessList" ELSE view_mode
            /\ filter_input' = IF key = Key("Esc") THEN <<>> ELSE filter_input
            /\ rule_input' = IF key = Key("Esc") THEN <<>> ELSE rule_input
            /\ nice_input' = IF key = Key("Esc") THEN <<>> ELSE nice_input
            /\ UNCHANGED <<os, ctlVars>>
       ELSE /\ IF key \in {KeyChar(107), KeyChar(115), KeyChar(99), KeyChar(116)}
                  /\ IsSome(selected_process)
               THEN /\ \E root \in BOOLEAN :
                         signal_call(SignalOf(key).op, SignalOf(key).sig,
                                     Unwrap(selected_process).pid, root)
                    /\ kill_stop_input_state' = "SelectingPid"
               ELSE /\ kill_stop_input_state' =
                         IF key = Key("Esc") THEN "SelectingPid" ELSE kill_stop_input_state
                    /\ UNCHANGED <<os, ctlVars>>
            /\ UNCHANGED <<selected_process_index, highlighted, view_mode, filter_input,
                           rule_input, nice_input>>
    /\ UNCHANGED <<proc_stat, since_update, wall, prev_map, pmVars, graphVars, active_rule,
                   app_filter_mode, app_sort_mode, app_sort_ascending, process_exit_log,
                   prev_pids, nice_input_state, selected_process_for_graph,
                   current_stats_tab, log_filter_input, log_filter_active, log_group_mode,
                   log_scroll_offset>>

\* str::parse::<i32> of a text of digits with an optional leading '-'
parse_i32(s) ==
    IF s = <<>> \/ s = <<45>> THEN None
    ELSE IF s[1] = 45 THEN Some(0 - DecimalValue(Tail(s)))
    ELSE Some(DecimalValue(s))

\* ProcessManager::set_niceness called from the menu
niceness_call(pid, nice, root, rlimit) ==
    LET checks == set_niceness_checks(nice, root)
        errno  == setpriority(pid, nice, root, rlimit)
        called == checks = "setpriority"
    IN  /\ ret' = [op |-> "set_niceness", pid |-> pid, nice |-> nice, root |-> root,
                   target |-> TargetInfo(pid),
                   calls |-> IF called
                             THEN << [call |-> "setpriority", pid |-> pid, arg |-> nice] >>
                             ELSE << >>,
                   value |-> IF ~called THEN checks
                             ELSE IF errno = "0" THEN "Ok" ELSE last_os_error(errno)]
        /\ renice' = IF called /\ errno = "0"
                     THEN [p \in DOMAIN renice \cup {pid} |->
                              IF p = pid THEN nice ELSE renice[p]]
                     ELSE renice
        /\ UNCHANGED stopped

\* handle_change_nice_input
handle_change_nice_input(key) ==
    /\ view_mode = "ChangeNice"
    /\ pc = "events"
    /\ pc' = "refresh"
    /\ IF nice_input_state = "SelectingPid"
       THEN /\ selected_process_index' = move_selection(key)
            /\ nice_input_state' =
                 IF key = Key("Enter") /\ processes # <<>>
                 THEN "EnteringNice" ELSE nice_input_state
            /\ highlighted' = IF key = Key("Enter") /\ processes # <<>>
                              THEN highlighted_pid ELSE highlighted
            /\ view_mode' = IF key = Key("Esc") THEN "ProcessList" ELSE view_mode
            /\ filter_input' = IF key = Key("Esc") THEN <<>> ELSE filter_input
            /\ rule_input' = IF key = Key("Esc") THEN <<>> ELSE rule_input
            /\ nice_input' = IF key \in {Key("Esc"), Key("Enter")} /\ (key = Key("Esc") \/ processes # <<>>)
                             THEN <<>> ELSE nice_input
            /\ UNCHANGED ctlVars
       ELSE /\ LET nice == parse_i32(nice_input)
                   acts == /\ key = Key("Enter")
                           /\ nice_input # <<>>
                           /\ IsSome(selected_process)
                           /\ IsSome(nice)
               IN  /\ IF acts /\ Unwrap(nice) >= -20 /\ Unwrap(nice) <= 19
                      THEN \E root, rlimit \in BOOLEAN :
                              niceness_call(Unwrap(selected_process).pid, Unwrap(nice),
                                            root, rlimit)
                      ELSE UNCHANGED ctlVars
                   /\ nice_input_state' = IF acts \/ key = Key("Esc")
                                          THEN "SelectingPid" ELSE nice_input_state
                   /\ nice_input' =
                        CASE acts \/ key = Key("Esc") -> <<>>
                          [] key.code = "Char"
                             /\ (IsDigit(key.ch) \/ (key.ch = 45 /\ nice_input = <<>>)) ->
                               Append(nice_input, key.ch)
                          [] key = Key("Backspace") ->
                               SubSeq(nice_input, 1, Len(nice_input) - 1)
                          [] OTHER -> nice_input
            /\ UNCHANGED <<selected_process_index, highlighted, view_mode, filter_input,
                           rule_input>>
    /\ UNCHANGED <<os, proc_stat, since_update, wall, prev_map, pmVars, graphVars,
                   active_rule, app_filter_mode, app_sort_mode, app_sort_ascending,
                   process_exit_log, prev_pids, kill_stop_input_state,
                   selected_process_for_graph, current_stats_tab, log_filter_input,
                   log_filter_active, log_group_mode, log_scroll_offset>>

\* The keys used in the Kill/Stop menu and on the way to it
MenuKeys ==
    {KeyChar(c) : c \in {49, 51, 57, 62, 99, 100, 105, 107, 112, 115, 116, 120}}
    \cup {Key(k) : k \in {"Esc", "Enter", "Up", "Down"}}

\* The user may set the rule "pid>9" and then opens the Kill/Stop menu
MenuUser(key) ==
    /\ key \in MenuKeys
    /\ view_mode = "ProcessList" => key \in {KeyChar(49), KeyChar(51)}
    /\ view_mode = "FilterSort" => key \in {KeyChar(120), Key("Esc")}
    /\ view_mode = "RuleInput" =>
         \/ key = Key("Enter") /\ rule_input \in RuleTexts
         \/ key.code = "Char" /\ IsPrefix(Append(rule_input, key.ch), <<112, 105, 100, 62, 57>>)
    /\ view_mode = "KillStop" =>
         key \in {KeyChar(99), KeyChar(107), KeyChar(115), KeyChar(116), Key("Esc"),
                  Key("Enter"), Key("Up"), Key("Down")}

\* Processes exit while the user works in the Kill/Stop menu
NextMenu ==
    \/ \E i \in ProcIds : OsExit(i, MaxExits)
    \/ Tick
    \/ NoKey
    \/ \E key \in MenuKeys :
         /\ MenuUser(key)
         /\ \/ handle_process_list_input(key)
            \/ handle_filter_sort_input(key)
            \/ handle_script_input(key)
            \/ handle_kill_stop_input(key)

\* The program starts while the pids 1 and 10 run
InitTwo == \E snapshot \in Orders({1, 2}) : InitWith({1, 2}, snapshot)

SpecMenu == InitTwo /\ [][NextMenu]_vars

\* The keys of the sort menu and of the way to it
SortMenuKeys ==
    {KeyChar(c) : c \in {49, 50, 51, 52, 53, 54, 97}} \cup {Key("Esc")}

\* The user toggles the direction in the process list and goes to the sort
\* menu and back
SortUser(key) ==
    /\ key \in SortMenuKeys
    /\ view_mode = "ProcessList" => key \in {KeyChar(49), KeyChar(97)}
    /\ view_mode = "FilterSort" => key \in {KeyChar(49), Key("Esc")}

\* The user picks sort keys and directions while three processes run
NextSort ==
    \/ Tick
    \/ NoKey
    \/ \E key \in SortMenuKeys :
         /\ SortUser(key)
         /\ \/ handle_process_list_input(key)
            \/ handle_filter_sort_input(key)
            \/ handle_sort_input(key)

SpecSort == InitThree /\ [][NextSort]_vars

\* handle_events, the match on app.view_mode with its twelve arms
view_dispatch(key) ==
    \/ handle_events(key)
    \/ handle_statistics_input(key)
    \/ handle_kill_stop_input(key)
    \/ handle_change_nice_input(key)
    \/ handle_per_process_graph_input(key)
    \/ handle_process_log_input(key)
    \/ handle_help_input(key)

\* The keys used to walk through the views
ViewKeys ==
    {KeyChar(c) : c \in {47, 49, 50, 51, 52, 53, 54, 103, 113, 115, 120}}
    \cup {Key(k) : k \in {"Esc", "Enter"}}

\* The user walks through the views and types "5" into the niceness prompt
\* and "x" into the search prompt of the log, nothing into the other prompts
ViewUser(key) ==
    /\ key \in ViewKeys
    /\ view_mode \in {"FilterInput", "RuleInput"} => key.code # "Char"
    /\ (view_mode = "ChangeNice" /\ nice_input_state = "EnteringNice" /\ key.code = "Char")
          => (key.ch = 53 /\ nice_input = <<>>)
    /\ (view_mode = "ProcessLog" /\ log_filter_active /\ key.code = "Char")
          => (key.ch = 120 /\ log_filter_input = <<>>)

\* The user walks through all views while pid 1 runs
NextViews ==
    \/ Tick
    \/ NoKey
    \/ \E key \in ViewKeys : ViewUser(key) /\ view_dispatch(key)

SpecViews == Init /\ [][NextViews]_vars

----------------------------------------------------------------------------
(* The rule engine on its own: the public methods of RuleEngine            *)

\* Rules handed to set_rule: "", " ", "pid>9", "mem>1", "cpu >", "pid",
\* "x>1", "9/(pid-1)>0"
RuleArgs ==
    {<<>>, <<32>>, <<112, 105, 100, 62, 57>>, <<109, 101, 109, 62, 49>>,
     <<99, 112, 117, 32, 62>>, <<112, 105, 100>>, <<120, 62, 49>>,
     <<57, 47, 40, 112, 105, 100, 45, 49, 41, 62, 48>>}

\* RuleEngine::set_rule
ReSetRule(rule) ==
    /\ active_rule' = Some(rule)
    /\ UNCHANGED <<envVars, ctlVars, menuVars, prev_map, pmVars, graphVars, view_mode, filter_input, rule_input,
                   app_filter_mode, app_sort_mode, app_sort_ascending, process_exit_log,
                   prev_pids, pc>>

\* RuleEngine::evaluate_for on the record of process i.  after_failure tells
\* that the call before it evaluated the same rule and failed.
ReEvaluateFor(i) ==
    /\ ret' = [op    |-> "evaluate_for",
               rule  |-> active_rule,
               proc  |-> ProcessInfoOf(i),
               value |-> evaluate_for(active_rule, ProcessInfoOf(i)),
               after_failure |->
                   /\ ret.op = "evaluate_for"
                   /\ ret.rule = active_rule
                   /\ IsSome(ret.rule)
                   /\ eval_with_scope(Unwrap(ret.rule), ret.proc) = "err"]
    /\ UNCHANGED <<prev_map, menuVars, envVars, renice, stopped, pmVars, graphVars, appVars, pc>>

NextEval ==
    \/ \E rule \in RuleArgs : ReSetRule(rule)
    \/ \E i \in ProcIds : ReEvaluateFor(i)

SpecEval == Init /\ [][NextEval]_vars

----------------------------------------------------------------------------
(* The application left alone while one process (pid 10) starts, lives one *)
(* second of wall time and exits, again and again                          *)

NextLog ==
    \/ OsSpawn(2, MaxLogExits)
    \/ (2 \in os /\ wall = Len(process_exit_log) /\ WallTick(MaxLogExits))
    \/ (wall > Len(process_exit_log) /\ OsExit(2, MaxLogExits))
    \/ Tick
    \/ NoKey

SpecLog == Init /\ [][NextLog]_vars

\* The process with pid 10 starts and exits again and again while the user
\* works in the Process Log view
NextLogView ==
    \/ NextLog
    \/ \E key \in LogKeys :
         /\ LogUser(key)
         /\ \/ handle_process_list_input(key)
            \/ handle_process_log_input(key)

SpecLogView == Init /\ [][NextLogView]_vars

----------------------------------------------------------------------------
(* App::refresh statement by statement.  pc names the statement that runs  *)
(* next: "refresh" (entry), "refresh_all", "update_processes",             *)
(* "sort_processes", "graph_update", "exit_loop", then "events".           *)

\* The locals prev_map and prev_pids are taken; prev_pids is a clone of the
\* field, which keeps its value until the last statement
RefreshEnter ==
    /\ pc = "refresh"
    /\ prev_map' = processes
    /\ pc' = "refresh_all"
    /\ UNCHANGED <<envVars, ctlVars, menuVars, pmVars, graphVars, appVars>>

\* ProcessManager::refresh, system.refresh_all(): the snapshot is taken
RefreshAll ==
    /\ pc = "refresh_all"
    /\ \E order \in Orders(os) : system' = order
    /\ pc' = "update_processes"
    /\ UNCHANGED <<envVars, ctlVars, menuVars, prev_map, processes, filtered_processes, sort_mode,
                   sort_ascending, filter_mode, filter_value, graphVars, appVars>>

\* The loop of update_processes: the records of the snapshot the filter keeps
kept_processes(sys, fmode, fvalue) ==
    SelectSeq([k \in 1..Len(sys) |-> ProcessInfoOf(sys[k])],
              LAMBDA p : passes_filter(fmode, fvalue, p))

\* ProcessManager::refresh, update_processes up to the assignment of the list
UpdateProcesses ==
    /\ pc = "update_processes"
    /\ processes' = kept_processes(system, filter_mode, filter_value)
    /\ pc' = "sort_processes"
    /\ UNCHANGED <<envVars, ctlVars, menuVars, prev_map, system, filtered_processes, sort_mode,
                   sort_ascending, filter_mode, filter_value, graphVars, appVars>>

\* The sort at the end of update_processes and the one at the end of refresh
SortProcesses ==
    /\ pc = "sort_processes"
    /\ processes' =
         IF IsSome(sort_mode)
         THEN sort_processes(sort_processes(processes, Unwrap(sort_mode), sort_ascending),
                             Unwrap(sort_mode), sort_ascending)
         ELSE processes
    /\ pc' = "graph_update"
    /\ UNCHANGED <<envVars, ctlVars, menuVars, prev_map, system, filtered_processes, sort_mode,
                   sort_ascending, filter_mode, filter_value, graphVars, appVars>>

\* self.graph_data.update(&self.process_manager)
GraphStep ==
    /\ pc = "graph_update"
    /\ GraphUpdate(processes)
    /\ pc' = "exit_loop"
    /\ UNCHANGED <<os, proc_stat, wall, ctlVars, menuVars, prev_map, pmVars, appVars>>

\* The loop over prev_pids.difference(&current_set), the assignment of
\* prev_pids, the return (prev_map is dropped) and the draw of the view
ExitLoop ==
    /\ pc = "exit_loop"
    /\ \E visit \in Orders(prev_pids \ PidsOf(processes)) :
         process_exit_log' =
             log_listed(view_mode, log_filter_input,
                        detect_exits(process_exit_log, visit, prev_map, wall))
    /\ prev_pids' = PidsOf(processes)
    /\ filtered_processes' =
         IF view_mode \in RuleViews /\ IsSome(active_rule)
         THEN apply_rules(processes, active_rule)
         ELSE filtered_processes
    /\ prev_map' = <<>>
    /\ pc' = "events"
    /\ UNCHANGED <<envVars, ctlVars, menuVars, system, processes, sort_mode, sort_ascending,
                   filter_mode, filter_value, graphVars, active_rule, view_mode,
                   filter_input, rule_input, app_filter_mode, app_sort_mode,
                   app_sort_ascending>>

\* The application left alone while processes come and go, one statement of
\* App::refresh at a time
NextSteps ==
    \/ OsMoves
    \/ Elapse
    \/ WallTick(MaxWall)
    \/ RefreshEnter
    \/ RefreshAll
    \/ UpdateProcesses
    \/ SortProcesses
    \/ GraphStep
    \/ ExitLoop
    \/ NoKey

SpecSteps == Init /\ [][NextSteps]_vars

\* GraphData::update up to the two push_back on the global series: the early
\* return when rate limited, update_cpu_info, the two sums and the pushes
GraphPush ==
    /\ pc = "graph_update"
    /\ IF rate_limited(since_update)
       THEN /\ pc' = "exit_loop"
            /\ UNCHANGED <<cpu_infos, cpu_history, memory_history>>
       ELSE /\ cpu_infos' = [c \in 1..NumCores |-> update_cpu_info(cpu_infos[c], proc_stat[c])]
            /\ cpu_history' = Append(cpu_history, total_cpu(processes))
            /\ memory_history' = Append(memory_history, total_memory(processes))
            /\ pc' = "per_process"
    /\ UNCHANGED <<envVars, ctlVars, menuVars, prev_map, pmVars, per_process_history, appVars>>

\* GraphData::update, the loop over the processes and the retain
GraphPerProcess ==
    /\ pc = "per_process"
    /\ per_process_history' = update_per_process(per_process_history, processes)
    /\ pc' = "trim"
    /\ UNCHANGED <<envVars, ctlVars, menuVars, prev_map, pmVars, cpu_history, memory_history,
                   cpu_infos, appVars>>

\* GraphData::update, the two pop_front on the global series and last_update
GraphTrim ==
    /\ pc = "trim"
    /\ cpu_history' = IF Len(cpu_history) > max_points THEN Tail(cpu_history) ELSE cpu_history
    /\ memory_history' =
         IF Len(memory_history) > max_points THEN Tail(memory_history) ELSE memory_history
    /\ since_update' = 0
    /\ pc' = "exit_loop"
    /\ UNCHANGED <<os, proc_stat, wall, ctlVars, menuVars, prev_map, pmVars,
                   per_process_history, cpu_infos, appVars>>

\* The application left alone while processes come and go, one statement of
\* App::refresh and one part of GraphData::update at a time
NextUpdate ==
    \/ OsMoves
    \/ Elapse
    \/ RefreshEnter
    \/ RefreshAll
    \/ UpdateProcesses
    \/ SortProcesses
    \/ GraphPush
    \/ GraphPerProcess
    \/ GraphTrim
    \/ ExitLoop
    \/ NoKey

SpecUpdate == Init /\ [][NextUpdate]_vars

----------------------------------------------------------------------------
(* Properties                                                              *)

\* A step that is one App::refresh (with the draw that follows it)
TickStep == pc = "refresh" /\ pc' = "events"

\* A tick that runs at least update_interval after the last effective update
EffectiveTick == TickStep /\ since_update >= update_interval

\* A tick that runs less than update_interval after the last effective update
\* (or after GraphData::new)
LimitedTick == TickStep /\ since_update < update_interval

\* C1: the global CPU history, the global memory history and every
\* per-process CPU and memory series hold at most max_points samples.
C1_HistoryBounded ==
    /\ Len(cpu_history) <= max_points
    /\ Len(memory_history) <= max_points
    /\ \A pid \in DOMAIN per_process_history :
         /\ Len(per_process_history[pid][1]) <= max_points
         /\ Len(per_process_history[pid][2]) <= max_points

\* C1: an update has just run with the global series and a per-process series full
C1_Witness ==
    /\ pc = "events"
    /\ since_update = 0
    /\ Len(cpu_history) = max_points
    /\ Len(memory_history) = max_points
    /\ \E pid \in DOMAIN per_process_history :
         Len(per_process_history[pid][1]) = max_points

\* new is old with the sample x appended, after dropping the oldest sample
\* when old held max_points samples
FifoAppend(old, new, x) ==
    IF Len(old) < max_points THEN new = Append(old, x) ELSE new = Append(Tail(old), x)

\* C2: an effective tick appends the new sample at the end of every series
\* holding fewer than max_points samples, and turns a series holding
\* max_points samples into its tail followed by the new sample.
C2_FifoOrder ==
    [][EffectiveTick =>
        /\ FifoAppend(cpu_history, cpu_history', total_cpu(processes'))
        /\ FifoAppend(memory_history, memory_history', total_memory(processes'))
        /\ \A pid \in DOMAIN per_process_history \cap DOMAIN per_process_history' :
             /\ FifoAppend(per_process_history[pid][1], per_process_history'[pid][1],
                           ByPid(processes', pid).cpu_usage)
             /\ FifoAppend(per_process_history[pid][2], per_process_history'[pid][2],
                           ByPid(processes', pid).memory_usage)]_vars

\* C2: after an update, full series whose oldest and newest samples differ
C2_Witness ==
    /\ pc = "events"
    /\ since_update = 0
    /\ Len(cpu_history) = max_points
    /\ cpu_history[1] # cpu_history[max_points]
    /\ \E pid \in DOMAIN per_process_history :
         /\ Len(per_process_history[pid][1]) = max_points
         /\ per_process_history[pid][1][1] # per_process_history[pid][1][max_points]

\* C3: a rate-limited GraphData::update changes neither the histories, nor
\* the per-process map, nor the per-core usage and counters, nor last_update.
C3_RateLimitedNoOp ==
    [][LimitedTick => UNCHANGED <<cpu_history, memory_history, per_process_history,
                                  cpu_infos, since_update>>]_vars

\* C3: a tick has refreshed the list and the kernel counters have advanced,
\* and the store, still inside its first interval, holds nothing of either
C3_Witness ==
    /\ pc = "events"
    /\ processes # <<>>
    /\ since_update < update_interval
    /\ cpu_history = <<>>
    /\ per_process_history = <<>>
    /\ proc_stat[1].total > 0
    /\ cpu_infos[1].last_total = 0

\* The number of entries of the log for pid
EntriesFor(log, pid) == Cardinality({k \in 1..Len(log) : log[k].pid = pid})

\* C4: a tick that finds a pid of the previous tick's list gone from the list
\* adds one entry for that pid to the exit log and leaves no per-process
\* history for it, whatever the time since the last update of the store.
C4_ExitLoggedAndCollected ==
    [][TickStep =>
        \A pid \in prev_pids \ PidsOf(processes') :
            /\ EntriesFor(process_exit_log', pid) = EntriesFor(process_exit_log, pid) + 1
            /\ pid \notin DOMAIN per_process_history']_vars

\* C5: a tick appends to the exit log exactly one entry per pid that the
\* previous tick's list held and the new list does not hold, each with a
\* non-negative uptime, also after set_filter changed the list in between.
C5_OneEntryPerVanishedPid ==
    [][TickStep =>
        LET gone == prev_pids \ PidsOf(processes')
            old  == Len(process_exit_log)
            new  == Len(process_exit_log')
        IN  /\ new = old + Cardinality(gone)
            /\ SubSeq(process_exit_log', 1, old) = process_exit_log
            /\ \A pid \in gone :
                 Cardinality({k \in (old + 1)..new : process_exit_log'[k].pid = pid}) = 1
            /\ \A k \in (old + 1)..new : process_exit_log'[k].uptime_secs >= 0]_vars

\* The log of the next state keeps, in their order, the newest entries of the
\* log and holds n more entries behind them, LogCapacity entries at most
LogFifoStep(n) ==
    LET old  == Len(process_exit_log)
        new  == Len(process_exit_log')
        kept == new - n
    IN  /\ new = IF old + n <= LogCapacity THEN old + n ELSE LogCapacity
        /\ kept >= 0
        /\ SubSeq(process_exit_log', 1, kept) = SubSeq(process_exit_log, old - kept + 1, old)
        /\ \A k \in (kept + 1)..new : process_exit_log'[k].pid \in prev_pids \ PidsOf(processes')

\* C6: the exit log never holds more than 100 entries; a tick that logs exits
\* keeps the newest entries of the log in their order, evicting the oldest
\* ones when the log is full, and puts the new entries behind them.
C6_BoundedFifoLog ==
    /\ [](Len(process_exit_log) <= LogCapacity)
    /\ [][TickStep => \E n \in 0..Cardinality(prev_pids) : LogFifoStep(n)]_vars

\* C6: the log is full, entries have been evicted from it (the exit detected
\* first, at second 1, is no longer its oldest entry), and the entries kept
\* are in the order of their detection
C6_Witness ==
    /\ pc = "events"
    /\ Len(process_exit_log) = LogCapacity
    /\ process_exit_log[1].exit_time > 1
    /\ \A k \in 1..(LogCapacity - 1) :
         process_exit_log[k].exit_time < process_exit_log[k + 1].exit_time

RecordsOf(list) == {list[k] : k \in 1..Len(list)}

\* A rule is active: set and not empty
RuleActive == IsSome(active_rule) /\ trim(Unwrap(active_rule)) # <<>>

\* The records of the snapshot for which the active rule evaluates to true
RuleTrue == {ProcessInfoOf(i) : i \in {j \in os : evaluate_for(active_rule, ProcessInfoOf(j))}}

\* C7: after every tick with a rule active, a list the registry hands out
\* (get_processes or get_filtered_processes) holds exactly the records of the
\* snapshot for which the rule evaluates to true.
C7_RuleDecidesList ==
    [][(TickStep /\ RuleActive) =>
        \/ RecordsOf(processes') = RuleTrue
        \/ RecordsOf(filtered_processes') = RuleTrue]_vars

\* a's key is at most b's key; the key of "start" is the formatted start time
KeyLeq(mode, a, b) ==
    LET ppid(p) == IF IsSome(p.parent_pid) THEN Unwrap(p.parent_pid) ELSE 0
    IN  CASE mode = "pid"   -> a.pid <= b.pid
          [] mode = "mem"   -> a.memory_usage <= b.memory_usage
          [] mode = "ppid"  -> ppid(a) <= ppid(b)
          [] mode = "start" -> ~StrLess(b.startTime, a.startTime)
          [] mode = "nice"  -> a.nice <= b.nice
          [] mode = "cpu"   -> a.cpu_usage <= b.cpu_usage

\* C8: while one of the six sort keys is set, the list read by get_processes
\* is non-decreasing in that key when ascending and non-increasing when
\* descending, after set_sort and after every refresh and set_filter.
C8_SortedList ==
    (IsSome(sort_mode) /\ Unwrap(sort_mode) \in SortModes) =>
        \A k \in 1..(Len(processes) - 1) :
            IF sort_ascending
            THEN KeyLeq(Unwrap(sort_mode), processes[k], processes[k + 1])
            ELSE KeyLeq(Unwrap(sort_mode), processes[k + 1], processes[k])

\* C8: a filtered list of three records sorted descending by start, whose
\* order by formatted start time is not the order by raw start time
C8_Witness ==
    /\ sort_mode = Some("start")
    /\ ~sort_ascending
    /\ IsSome(filter_mode) /\ IsSome(filter_value)
    /\ Len(processes) = 3
    /\ processes[3].start_time > processes[1].start_time

\* C9: a second set_sort with the same arguments leaves the list set_sort
\* produced as it is, and a second set_filter with the same arguments
\* rebuilds the list set_filter produced, same records in the same order.
C9_Idempotent ==
    [][/\ (\E mode \in SortArgs, ascending \in BOOLEAN : PmSetSort(mode, ascending)) =>
            sort_processes(processes', Unwrap(sort_mode'), sort_ascending') = processes'
       /\ (\E mode \in FilterModeArgs, value \in FilterValueArgs : PmSetFilter(mode, value)) =>
            update_processes(system', filter_mode', filter_value', sort_mode',
                             sort_ascending') = processes']_vars

\* C9: a filtered list sorted descending by cpu in which two records with the
\* same cpu usage stand in the order of their enumeration, the higher pid first
C9_Witness ==
    /\ sort_mode = Some("cpu")
    /\ ~sort_ascending
    /\ filter_mode = Some("name") /\ IsSome(filter_value)
    /\ \E k \in 1..(Len(processes) - 1) :
         /\ processes[k].cpu_usage = processes[k + 1].cpu_usage
         /\ processes[k].pid > processes[k + 1].pid

\* C10: with filter mode name or user and a filter value set, the list holds
\* exactly the records of the snapshot whose name (resp. user name) contains
\* the value when both are compared in lower case; a record without a user
\* name is not in the list under a user filter.
C10_CaseInsensitiveSubstring ==
    (IsSome(filter_mode) /\ IsSome(filter_value) /\ Unwrap(filter_mode) \in {"name", "user"}) =>
        PidsOf(processes) =
            {ProcessInfoOf(system[k]).pid : k \in
                {j \in 1..Len(system) :
                    LET p == ProcessInfoOf(system[j])
                        value == to_lowercase(Unwrap(filter_value))
                    IN  IF Unwrap(filter_mode) = "name"
                        THEN contains(to_lowercase(p.name), value)
                        ELSE IsSome(p.user) /\ contains(to_lowercase(Unwrap(p.user)), value)}}

\* C11: with filter mode pid or ppid and a filter value set, the list holds
\* exactly the records of the snapshot whose pid (resp. parent pid) has the
\* value as a substring of its decimal string; a record without a parent pid
\* is not in the list under a ppid filter.
C11_DecimalSubstring ==
    (IsSome(filter_mode) /\ IsSome(filter_value) /\ Unwrap(filter_mode) \in {"pid", "ppid"}) =>
        PidsOf(processes) =
            {ProcessInfoOf(system[k]).pid : k \in
                {j \in 1..Len(system) :
                    LET p == ProcessInfoOf(system[j])
                    IN  IF Unwrap(filter_mode) = "pid"
                        THEN contains(to_string(p.pid), Unwrap(filter_value))
                        ELSE /\ IsSome(p.parent_pid)
                             /\ contains(to_string(Unwrap(p.parent_pid)),
                                         Unwrap(filter_value))}}

\* C11: the pid filter "1" shows the pids 1, 10 and 21 of the snapshot
C11_Witness ==
    /\ filter_mode = Some("pid")
    /\ filter_value = Some(<<49>>)
    /\ PidsOf(processes) = {1, 10, 21}

\* C12: evaluate_for returned true whenever it was called with no rule set,
\* with the empty rule or with a rule of white space only.
C12_NoRuleIncludesAll ==
    (ret.op = "evaluate_for" /\ (ret.rule = None \/ trim(Unwrap(ret.rule)) = <<>>)) =>
        ret.value = TRUE

\* C12: evaluate_for was called with the rule " " and returned true
C12_Witness ==
    /\ ret.op = "evaluate_for"
    /\ ret.rule = Some(<<32>>)
    /\ ret.value = TRUE

\* The evaluation of the rule text fails for the record: "cpu >" does not
\* parse, "pid" is not a boolean, "x>1" names an unbound variable,
\* "9/(pid-1)>0" divides by zero for pid 1
Fails(text, p) ==
    \/ text \in {<<99, 112, 117, 32, 62>>, <<112, 105, 100>>, <<120, 62, 49>>}
    \/ (text = <<57, 47, 40, 112, 105, 100, 45, 49, 41, 62, 48>> /\ p.pid = 1)

\* The value of the rule text on the record's own values, where it has one
Holds(text, p) ==
    CASE text = <<112, 105, 100, 62, 57>> -> p.pid > 9
      [] text = <<109, 101, 109, 62, 49>> -> p.memory_usage > 1024 * 1024
      [] text = <<57, 47, 40, 112, 105, 100, 45, 49, 41, 62, 48>> -> p.pid - 1 <= 9
      [] OTHER -> FALSE

\* C13: evaluate_for returns false for a record on which the evaluation of
\* the rule fails; a call that follows a failed one returns the value of the
\* rule on its own record; no call changes the active rule.
C13_ErrorsExcludeOneRecord ==
    /\ []((ret.op = "evaluate_for" /\ IsSome(ret.rule) /\ trim(Unwrap(ret.rule)) # <<>>) =>
            /\ ret.value \in BOOLEAN
            /\ Fails(Unwrap(ret.rule), ret.proc) => ret.value = FALSE
            /\ (ret.after_failure /\ ~Fails(Unwrap(ret.rule), ret.proc)) =>
                    ret.value = Holds(Unwrap(ret.rule), ret.proc))
    /\ [][(\E i \in ProcIds : ReEvaluateFor(i)) => active_rule' = active_rule]_vars

\* C13: right after the evaluation of "9/(pid-1)>0" failed for pid 1, the
\* call for pid 10 returned true, and the rule is still the active rule
C13_Witness ==
    /\ ret.op = "evaluate_for"
    /\ ret.rule = Some(<<57, 47, 40, 112, 105, 100, 45, 49, 41, 62, 48>>)
    /\ active_rule = ret.rule
    /\ ret.after_failure
    /\ ret.proc.pid = 10
    /\ ret.value = TRUE

\* set_niceness was called with a value inside -20..19
NiceInRange == ret.op = "set_niceness" /\ ret.nice >= -20 /\ ret.nice <= 19

\* C14: set_niceness with a value below -20 or above 19 returned InvalidInput
\* and called nothing of the operating system, whatever the pid and whether
\* or not the caller is root.
C14_RangeCheckedFirst ==
    (ret.op = "set_niceness" /\ (ret.nice < -20 \/ ret.nice > 19)) =>
        /\ ret.value = "InvalidInput"
        /\ ret.calls = << >>

\* C14: an unprivileged caller handed in a value below -20 and got InvalidInput
C14_Witness ==
    /\ ret.op = "set_niceness"
    /\ ret.nice < -20
    /\ ~ret.root
    /\ ret.value = "InvalidInput"

\* C15 as stated: an in-range call by an unprivileged caller returns
\* PermissionDenied when the value is below the target's niceness, and Ok
\* when the value is 10 and the caller owns the target.
C15_LoweringDeniedTenAllowed ==
    NiceInRange =>
        /\ (~ret.root /\ IsSome(ret.target) /\ ret.nice < Unwrap(ret.target).nice) =>
                ret.value = "PermissionDenied"
        /\ (~ret.root /\ ret.nice = 10 /\ IsSome(ret.target) /\ Unwrap(ret.target).owned) =>
                ret.value = "Ok"

\* C15, amended: an in-range call by an unprivileged caller returns
\* PermissionDenied without a call of the operating system when the value is
\* negative; it makes one setpriority call and returns Ok when the value is
\* 10, the caller owns the target and the target's niceness is at most 10;
\* when a non-negative value is below the target's niceness it makes one
\* setpriority call and returns Ok or PermissionDenied as that call decides.
C15_NegativeDeniedRaiseAllowed ==
    (NiceInRange /\ ~ret.root) =>
        /\ ret.nice < 0 => (ret.value = "PermissionDenied" /\ ret.calls = << >>)
        /\ (ret.nice = 10 /\ IsSome(ret.target) /\ Unwrap(ret.target).owned
                /\ Unwrap(ret.target).nice <= 10) =>
                (ret.value = "Ok" /\ Len(ret.calls) = 1)
        /\ (ret.nice >= 0 /\ IsSome(ret.target) /\ Unwrap(ret.target).owned
                /\ ret.nice < Unwrap(ret.target).nice) =>
                (ret.value \in {"Ok", "PermissionDenied"} /\ Len(ret.calls) = 1)

\* C15: an unprivileged caller set niceness 10 on the process it owns; the
\* registry's list still shows the old niceness
C15_Witness ==
    /\ NiceInRange
    /\ ~ret.root
    /\ ret.nice = 10
    /\ ret.target = Some([nice |-> 0, owned |-> TRUE])
    /\ ret.value = "Ok"
    /\ \E k \in 1..Len(processes) : processes[k].pid = ret.pid /\ processes[k].nice = 0

\* C16: kill_process and stop_process made exactly one kill call, for the
\* given pid and with their signal, and returned Ok when it succeeded and
\* its error when it failed; neither changes the registry's snapshot, list,
\* sort or filter.
C16_OneSignalAttempt ==
    /\ [](ret.op \in {"kill_process", "stop_process"} =>
            /\ ret.calls = << [call |-> "kill", pid |-> ret.pid,
                               arg |-> IF ret.op = "kill_process" THEN "SIGKILL"
                                                                  ELSE "SIGSTOP"] >>
            /\ ret.value = IF ret.errno = "0" THEN "Ok" ELSE ret.errno)
    /\ [][(\E pid \in PidArgs, root \in BOOLEAN : PmKill(pid, root) \/ PmStop(pid, root)) =>
            UNCHANGED pmVars]_vars

\* C16: kill_process failed with EPERM on a listed process of another user
C16_Witness ==
    /\ ret.op = "kill_process"
    /\ ret.errno = "EPERM"
    /\ ret.value = "EPERM"
    /\ ret.pid \in PidsOf(processes)
    /\ ret.pid \in PidsIn(os)

\* The statement at position at runs
Runs(at) == pc = at /\ pc' # at

\* C17: within a tick the snapshot is followed by the filter, the filter by
\* the sort, the sort by the exit diffing, the exit diffing by the history
\* append, and the history append ends the tick; when the store ingests the
\* list, prev_pids already is the pid set of that list; a tick starts only
\* after the previous tick has ended.
C17_ExitsBeforeHistory ==
    [][/\ Runs("refresh_all") => pc' = "update_processes"
       /\ Runs("update_processes") => pc' = "sort_processes"
       /\ Runs("sort_processes") => pc' = "exit_loop"
       /\ Runs("exit_loop") => pc' = "graph_update"
       /\ Runs("graph_update") => (pc' = "events" /\ prev_pids = PidsOf(processes))
       /\ pc' = "refresh" => pc \in {"refresh", "events"}]_vars

\* Start texts: "00:00:02" as format_timestamp writes it, and
\* "2026-01-01 00:00:02" in the format the exit loop parses
StartTexts ==
    {<<48, 48, 58, 48, 48, 58, 48, 50>>,
     <<50, 48, 50, 54, 45, 48, 49, 45, 48, 49, 32, 48, 48, 58, 48, 48, 58, 48, 50>>}

\* Exit times before, at and after 00:00:02 of the first day
ExitTimes == {0, 86402, 86410}

\* The uptime the exit loop is to compute from a start text and an exit time
UptimeFor(start_text, exit_time) ==
    LET parsed == parse_start_time(start_text)
    IN  IF parsed = None THEN 0
        ELSE IF exit_time >= Unwrap(parsed) THEN exit_time - Unwrap(parsed) ELSE 0

CoreSeries(info) == << info.usage >>

\* C19: an effective tick appends one sample to the global CPU series and to
\* the global memory series, one sample to the series of every core, and one
\* sample to the series of every pid of the list (a fresh series for a pid
\* that had none).
C19_OneSamplePerStore ==
    [][EffectiveTick =>
        /\ FifoAppend(cpu_history, cpu_history', total_cpu(processes'))
        /\ FifoAppend(memory_history, memory_history', total_memory(processes'))
        /\ \A c \in 1..NumCores :
             FifoAppend(CoreSeries(cpu_infos[c]), CoreSeries(cpu_infos'[c]), cpu_infos'[c].usage)
        /\ \A pid \in PidsOf(processes') :
             /\ pid \in DOMAIN per_process_history'
             /\ LET old == IF pid \in DOMAIN per_process_history
                           THEN per_process_history[pid] ELSE << << >>, << >> >>
                IN  /\ FifoAppend(old[1], per_process_history'[pid][1],
                                  ByPid(processes', pid).cpu_usage)
                    /\ FifoAppend(old[2], per_process_history'[pid][2],
                                  ByPid(processes', pid).memory_usage)]_vars

\* The pids of a snapshot: a full enumeration of the process table
SnapshotPids(sys) == PidsIn({sys[k] : k \in 1..Len(sys)})

\* C20: after an effective tick the keys of the per-process history are the
\* pids of the snapshot the tick took: no key is left for a pid that is not
\* in the snapshot and every pid of the snapshot has a series.
C20_KeysAreSnapshotPids ==
    [][EffectiveTick => DOMAIN per_process_history' = SnapshotPids(system')]_vars

\* After an effective tick the keys of the per-process history are the pids
\* of the list the registry shows
KeysAreListedPids ==
    [][EffectiveTick => DOMAIN per_process_history' = PidsOf(processes')]_vars

\* C21: an effective tick sets the usage of every core to
\* 100 * (1 - idle delta / total delta) of the counters read against the
\* counters stored (in whole percents), so the counters (100, 200) stored
\* and (150, 300) read give 50; when the total delta is 0 the usage stays
\* as it was; the counters read are stored in both cases.
C21_UsageFromDeltas ==
    [][EffectiveTick =>
        \A c \in 1..NumCores :
            LET idle_delta  == proc_stat[c].idle - cpu_infos[c].last_idle
                total_delta == proc_stat[c].total - cpu_infos[c].last_total
                usage       == cpu_infos'[c].usage
            IN  /\ total_delta > 0 =>
                     /\ usage * total_delta >= 100 * (total_delta - idle_delta)
                     /\ usage * total_delta < 100 * (total_delta - idle_delta) + total_delta
                /\ (/\ cpu_infos[c].last_idle = 100 /\ cpu_infos[c].last_total = 200
                    /\ proc_stat[c].idle = 150 /\ proc_stat[c].total = 300) => usage = 50
                /\ total_delta = 0 => usage = cpu_infos[c].usage
                /\ cpu_infos'[c].last_idle = proc_stat[c].idle
                /\ cpu_infos'[c].last_total = proc_stat[c].total]_vars

\* C21: the counters (150, 300) were read and stored, the usage is 50, and a
\* later update with the same counters has kept it: the global history holds
\* the samples of at least two updates
C21_Witness ==
    /\ pc = "events"
    /\ since_update = 0
    /\ cpu_infos[1] = [usage |-> 50, last_idle |-> 150, last_total |-> 300]
    /\ proc_stat[1] = [idle |-> 150, total |-> 300]
    /\ Len(cpu_history) >= 2

\* C22: a key handled in the Process Log view (search text typed or cleared,
\* group mode cycled or cleared, scrolling) leaves the exit log as it is; the
\* log changes only in a tick, which keeps the newest entries unchanged and
\* in their order, evicts the oldest ones at capacity and appends the new
\* entries at the end.
C22_LogOnlyAppended ==
    /\ [][(view_mode = "ProcessLog" /\ pc = "events" /\ pc' = "refresh") =>
            process_exit_log' = process_exit_log]_vars
    /\ [][process_exit_log' # process_exit_log =>
            (TickStep /\ \E n \in 1..Cardinality(prev_pids) : LogFifoStep(n))]_vars

\* C22: the log is full and has evicted entries; in the Process Log view the
\* user has cycled the group mode to User, paged down, and a key has just been
\* handled
C22_Witness ==
    /\ view_mode = "ProcessLog"
    /\ pc = "refresh"
    /\ log_group_mode = "User"
    /\ log_scroll_offset = log_height
    /\ Len(process_exit_log) = LogCapacity
    /\ process_exit_log[1].exit_time > 1

----------------------------------------------------------------------------
(* The menus that act on a process                                         *)

\* A step of the Kill/Stop menu that sends a signal
MenuSignals ==
    /\ view_mode = "KillStop"
    /\ kill_stop_input_state = "EnteringAction"
    /\ pc = "events"
    /\ ret' # ret

\* C23: the process that receives the signal of the Kill/Stop menu is the
\* one whose row was highlighted when Enter selected it, whatever ticks and
\* rules did to the list in between.
C23_ActsOnHighlighted ==
    [][MenuSignals => highlighted = Some(ret'.pid)]_vars

----------------------------------------------------------------------------
(* What the exit log records                                               *)

\* C24: every entry a tick appends to the exit log is for a pid that the
\* process table no longer holds at that tick; a running process that a
\* filter removed from the visible list is not logged as exited.
C24_LoggedPidsHaveExited ==
    [][TickStep =>
        \A k \in (Len(process_exit_log) + 1)..Len(process_exit_log') :
            process_exit_log'[k].pid \notin PidsIn(os)]_vars

----------------------------------------------------------------------------
(* The visible list and the snapshot                                       *)

\* The four filter modes that select records
StructuralModes == {"user", "name", "pid", "ppid"}

\* The list holds, once each, exactly the records of the snapshot sys that
\* satisfy the filter when a structural filter is set with a value, and every
\* record of sys when the mode or the value is missing or the mode is unknown
VisibleIs(list, sys, fmode, fvalue) ==
    LET snap == {ProcessInfoOf(sys[k]) : k \in 1..Len(sys)}
        structural == IsSome(fmode) /\ IsSome(fvalue) /\ Unwrap(fmode) \in StructuralModes
        expected == IF structural
                    THEN {p \in snap : should_include(Unwrap(fmode), Unwrap(fvalue), p)}
                    ELSE snap
    IN  /\ RecordsOf(list) = expected
        /\ Len(list) = Cardinality(expected)

\* C25: after set_filter and after every refresh the visible list holds
\* exactly the records of the snapshot that satisfy the structural filter
\* set, and every record of the snapshot when the mode or the value is
\* missing or the mode is unknown; set_sort keeps it so; set_filter derives
\* the list from the last snapshot and takes no new one.
C25_VisibleIsFilteredSnapshot ==
    [][/\ (\/ PmRefresh
           \/ \E mode \in FilterModeArgs, value \in FilterValueArgs : PmSetFilter(mode, value)
           \/ VisibleIs(processes, system, filter_mode, filter_value))
          => VisibleIs(processes', system', filter_mode', filter_value')
       /\ (\E mode \in FilterModeArgs, value \in FilterValueArgs : PmSetFilter(mode, value))
          => system' = system]_vars

\* C25: under the ppid filter "1" the list shows two of the three processes
\* of the snapshot, the children of pid 1
C25_Witness ==
    /\ filter_mode = Some("ppid")
    /\ filter_value = Some(<<49>>)
    /\ Len(system) = 3
    /\ PidsOf(processes) = {10, 21}

----------------------------------------------------------------------------
(* Eviction and insertion                                                  *)

\* C26: a global series never holds more than max_points samples, not even
\* between two statements of an update: a step that adds a sample to a
\* series holding max_points samples has removed the oldest one.
C26_EvictedBeforeAdded ==
    /\ [](Len(cpu_history) <= max_points /\ Len(memory_history) <= max_points)
    /\ [][/\ Len(cpu_history) = max_points => Len(cpu_history') <= max_points
          /\ Len(memory_history) = max_points => Len(memory_history') <= max_points]_vars

----------------------------------------------------------------------------
(* Leaving a view                                                          *)

\* Some key changes a field of App or of the registry
SomeKeyIsHeard ==
    \E key \in ViewKeys :
        /\ view_dispatch(key)
        /\ <<pmVars, appVars, menuVars>>' # <<pmVars, appVars, menuVars>>

\* C27: no view, Help included, ignores every key: whenever the loop waits
\* for a key outside the process list, some key changes the state of the
\* application (and so can lead back to the process list).
C27_NoViewIgnoresEveryKey ==
    (pc = "events" /\ view_mode # "ProcessList") => ENABLED SomeKeyIsHeard

----------------------------------------------------------------------------
(* One entry per disappearance                                             *)

\* C28: a tick appends entries only for pids that the previous tick's list
\* held and the new list does not hold, at most one for each, and it replaces
\* the remembered pid set by the pids of the new list, so the next tick does
\* not see the same disappearance again; a tick that remembers no pids, as
\* the first tick after start-up, appends nothing.
C28_LoggedAtMostOnce ==
    [][TickStep =>
        LET old == Len(process_exit_log)
            new == Len(process_exit_log')
        IN  /\ \A k \in (old + 1)..new :
                 process_exit_log'[k].pid \in prev_pids \ PidsOf(processes')
            /\ \A j, k \in (old + 1)..new :
                 process_exit_log'[j].pid = process_exit_log'[k].pid => j = k
            /\ prev_pids' = PidsOf(processes')
            /\ prev_pids = {} => process_exit_log' = process_exit_log]_vars

\* C28: a disappearance has been logged, and the pid of the entry is no
\* longer among the pids the next tick compares with
C28_Witness ==
    /\ pc = "events"
    /\ Len(process_exit_log) = 1
    /\ process_exit_log[1].pid \notin prev_pids

----------------------------------------------------------------------------
(* Stability of the sort                                                   *)

\* The sort keys that are numbers
NumericModes == {"pid", "mem", "ppid", "nice", "cpu"}

\* Records with equal keys stand in after in the order they have in before
KeepsTies(before, after, mode) ==
    \A i, j \in 1..Len(before) :
        (i < j /\ KeyLeq(mode, before[i], before[j]) /\ KeyLeq(mode, before[j], before[i]))
            => position(after, before[i].pid) < position(after, before[j].pid)

\* C29: set_sort with a numeric key, ascending or descending, leaves records
\* with equal keys in the order they had in the list before; after a refresh
\* or set_filter under such a key they stand in the enumeration order of the
\* snapshot; set_sort with an unknown key leaves the list as it is.
C29_TiesKeepOrder ==
    [][/\ (\E mode \in SortArgs, ascending \in BOOLEAN : PmSetSort(mode, ascending)) =>
            IF Unwrap(sort_mode') \in NumericModes
            THEN KeepsTies(processes, processes', Unwrap(sort_mode'))
            ELSE Unwrap(sort_mode') \notin SortModes => processes' = processes
       /\ (/\ \/ PmRefresh
              \/ \E mode \in FilterModeArgs, value \in FilterValueArgs :
                    PmSetFilter(mode, value)
           /\ IsSome(sort_mode)
           /\ Unwrap(sort_mode) \in NumericModes) =>
            KeepsTies(kept_processes(system', filter_mode', filter_value'), processes',
                      Unwrap(sort_mode))]_vars

\* C29: a list of three records sorted descending by memory in which pid 10
\* and pid 1 use the same memory and pid 10, enumerated first, stands first
C29_Witness ==
    /\ sort_mode = Some("mem")
    /\ ~sort_ascending
    /\ Len(processes) = 3
    /\ \E a, b \in 1..Len(system) :
         a < b /\ RawProcs[system[a]].pid = 10 /\ RawProcs[system[b]].pid = 1
    /\ \E k \in 1..2 :
         /\ processes[k].pid = 10
         /\ processes[k + 1].pid = 1
         /\ processes[k].memory_usage = processes[k + 1].memory_usage

----------------------------------------------------------------------------
(* The sort indicator                                                      *)

\* C30: the sort key App remembers is the sort key of the registry, and
\* while a sort key is set the ascending flag of App is the ascending flag
\* of the registry.
C30_SortIndicatorAgrees ==
    /\ app_sort_mode = sort_mode
    /\ IsSome(sort_mode) => app_sort_ascending = sort_ascending

\* C30: the user has picked the key cpu in descending direction and is back
\* in the process list, the key just handled
C30_Witness ==
    /\ pc = "refresh"
    /\ view_mode = "ProcessList"
    /\ app_sort_mode = Some("cpu")
    /\ sort_mode = Some("cpu")
    /\ ~app_sort_ascending
    /\ ~sort_ascending

====
